---- MODULE Spec2Model ----
(***************************************************************************)
(* A model of the iMessage MCP server: the request handlers of the         *)
(* dispatch shell, the access check and the query repository of            *)
(* lib/database.ts, the send path of lib/applescript.ts and the pure       *)
(* helpers of lib/utils.ts.                                                *)
(*                                                                         *)
(* The handlers are followed statement by statement: every call into the   *)
(* file system, the SQLite driver or osascript is one step whose outcome   *)
(* (success or a raised error) is chosen by the environment.  One request  *)
(* is in flight at a time; the repository calls are synchronous and cannot *)
(* interleave in any case.                                                 *)
(***************************************************************************)
EXTENDS Integers, Sequences, FiniteSets, TLC

VARIABLES
    hpc,          \* position of the request handler
    tool,         \* name of the tool or resource being served
    args,         \* the arguments of the request, as far as the handler reads them
    dbCheck,      \* the DatabaseAccessResult of this request's checkDatabaseAccess()
    stack,        \* call stack of repository operations (innermost last)
    openConns,    \* number of open better-sqlite3 connections
    ret,          \* what the outermost repository operation gave its caller
    sendRet,      \* what sendMessage gave its caller
    result,       \* the response of the handler
    trace,        \* history: the external calls of this request, in order
    storeWrites,  \* the message store (chat.db): the number of writes made to it
    connOptions,  \* history: the options the connections were opened with
    fn,           \* pure-function harness: the function under evaluation
    arg,          \* pure-function harness: its input
    out           \* pure-function harness: its output

serverVars == <<hpc, tool, args, dbCheck, stack, openConns, ret, sendRet, result, trace,
               storeWrites, connOptions>>
pureVars == <<fn, arg, out, storeWrites, connOptions>>
vars == <<hpc, tool, args, dbCheck, stack, openConns, ret, sendRet, result, trace, fn, arg, out,
         storeWrites, connOptions>>

None == "none"

\* Values of the variables that hold nothing yet.
NoCheck == [done |-> FALSE]
NoRet == [status |-> "none"]
NoResult == [kind |-> "none"]

\* Largest number of rows one statement returns in the model.
MaxRows == 2

\* Error texts the environment (fs, better-sqlite3, osascript) may raise.
Errors == {"err_a", "err_b"}

---------------------------------------------------------------------------
(* Requests                                                                *)

\* Tools and resources that read the message store, with the one repository
\* operation each of them calls after the access check.
StoreTools ==
    {"get_recent_messages", "get_conversation", "search_messages", "list_chats",
     "get_unread_count", "get_attachments", "get_group_chat_members", "find_chat",
     "check_database_access", "messages://recent", "chats://all"}

Resources == {"messages://recent", "chats://all"}

ToolOp(t) ==
    CASE t = "get_recent_messages" -> "getRecentMessages"
      [] t = "get_conversation" -> "getConversation"
      [] t = "search_messages" -> "searchMessages"
      [] t = "list_chats" -> "listChats"
      [] t = "get_unread_count" -> "getUnreadCount"
      [] t = "get_attachments" -> "getRecentAttachments"
      [] t = "get_group_chat_members" -> "getGroupChatMembers"
      [] t = "find_chat" -> "findChatByContact"
      [] t = "check_database_access" -> "getDatabaseStats"
      [] t = "messages://recent" -> "getRecentMessages"
      [] t = "chats://all" -> "listChats"

\* Tools whose handler throws when a required string argument is empty.
RequiresParam(t) ==
    t \in {"get_conversation", "search_messages", "get_group_chat_members",
           "find_chat", "send_message", "check_imessage_available", "search_contacts"}

RequiredMessage(t) ==
    CASE t \in {"get_conversation", "find_chat"} -> "Contact is required"
      [] t \in {"search_messages", "search_contacts"} -> "Search query is required"
      [] t = "check_imessage_available" -> "Recipient is required"
      [] t = "get_group_chat_members" -> "Chat identifier is required"
      [] t = "send_message" -> "Recipient and message are required"

\* Tools that call osascript through lib/applescript.ts and read no store.
AutomationTools == {"check_imessage_available", "search_contacts"}

AllTools == StoreTools \cup {"send_message"} \cup AutomationTools

\* The arguments a request may carry: whether the required string is present
\* (send_message: recipient and message), and the groupChat flag.
ArgSets(t) ==
    IF t = "send_message"
    THEN [recipient : BOOLEAN, message : BOOLEAN, groupChat : BOOLEAN]
    ELSE IF RequiresParam(t)
    THEN [recipient : BOOLEAN, message : {TRUE}, groupChat : {FALSE}]
    ELSE [recipient : {TRUE}, message : {TRUE}, groupChat : {FALSE}]

NoArgs == [recipient |-> TRUE, message |-> TRUE, groupChat |-> FALSE]

\* As DatabaseOptions, without readonly.
DatabaseOptions_Writable == [readonly |-> FALSE]

\* The options of new Database(MESSAGES_DB_PATH, ...) in getDatabase and in
\* the probe of checkDatabaseAccess.
DatabaseOptions == [readonly |-> TRUE]
ProbeOptions == [readonly |-> TRUE]

\* The kind of the one statement a repository function prepares.
StatementKind(op) == "SELECT"

\* The store after a statement of this kind ran on a connection opened with
\* these options: only a statement that is not a SELECT, on a connection
\* that is not read-only, writes.
AfterStatement(kind, options) ==
    IF kind # "SELECT" /\ ~options.readonly THEN storeWrites + 1 ELSE storeWrites

---------------------------------------------------------------------------
(* Initial state                                                           *)

ServerInit ==
    /\ hpc = "idle"
    /\ tool = None
    /\ args = NoArgs
    /\ dbCheck = NoCheck
    /\ stack = << >>
    /\ openConns = 0
    /\ ret = NoRet
    /\ sendRet = NoRet
    /\ result = NoResult
    /\ trace = << >>
    /\ storeWrites = 0
    /\ connOptions = {}

PureIdle ==
    /\ fn = None
    /\ arg = << >>
    /\ out = << >>

Init == ServerInit /\ PureIdle

Log(e) == trace' = Append(trace, e)

---------------------------------------------------------------------------
(* The request handlers                                                    *)

\* A request arrives; the handler reads its arguments.
Request ==
    /\ hpc = "idle"
    /\ \E t \in AllTools : \E a \in ArgSets(t) :
          /\ tool' = t
          /\ args' = a
    /\ hpc' = "validate"
    /\ dbCheck' = NoCheck
    /\ ret' = NoRet
    /\ sendRet' = NoRet
    /\ result' = NoResult
    /\ trace' = << >>
    /\ UNCHANGED <<stack, openConns, fn, arg, out, storeWrites, connOptions>>

\* As Validate, without the test of the required argument.
Validate_Unchecked ==
    /\ hpc = "validate"
    /\ hpc' = CASE tool = "send_message" -> "send"
                [] tool \in AutomationTools -> "automation"
                [] OTHER -> "existsSync"
    /\ UNCHANGED <<tool, args, dbCheck, stack, openConns, ret, sendRet, result, trace, fn, arg, out, storeWrites, connOptions>>

\* if (!contact) throw new Error("Contact is required"), and its like.
Validate ==
    /\ hpc = "validate"
    /\ IF RequiresParam(tool) /\ ~(args.recipient /\ args.message)
       THEN /\ hpc' = "done"
            /\ result' = [kind |-> "thrown", text |-> <<RequiredMessage(tool)>>]
       ELSE /\ hpc' = CASE tool = "send_message" -> "send"
                         [] tool \in AutomationTools -> "automation"
                         [] OTHER -> "existsSync"
            /\ result' = result
    /\ UNCHANGED <<tool, args, dbCheck, stack, openConns, ret, sendRet, trace, fn, arg, out, storeWrites, connOptions>>

---------------------------------------------------------------------------
(* checkDatabaseAccess                                                     *)

NotFoundMessage ==
    <<"Messages database not found. Make sure Messages app has been used.">>

\* `Cannot access Messages database. Grant Full Disk Access ... Error: ${e}`
GrantAccessMessage(e) == <<"Cannot access Messages database. Grant Full Disk Access.", e>>

\* The return statement of the catch block of checkDatabaseAccess.
CatchAccessError(e) == [done |-> TRUE, accessible |-> FALSE, error |-> GrantAccessMessage(e)]

\* The return statement of the success path of checkDatabaseAccess.
AccessOk == [done |-> TRUE, accessible |-> TRUE]

\* The return statement for a missing store file.
AccessNotFound == [done |-> TRUE, accessible |-> FALSE, error |-> NotFoundMessage]

\* if (!existsSync(MESSAGES_DB_PATH)) return {accessible: false, error: ...}
Check_existsSync ==
    /\ hpc = "existsSync"
    /\ \E exists \in BOOLEAN :
          IF exists
          THEN /\ Log(<<"existsSync", "true">>)
               /\ hpc' = "accessSync"
               /\ dbCheck' = dbCheck
          ELSE /\ Log(<<"existsSync", "false">>)
               /\ hpc' = "checked"
               /\ dbCheck' = AccessNotFound
    /\ UNCHANGED <<tool, args, stack, openConns, ret, sendRet, result, fn, arg, out, storeWrites, connOptions>>

\* As Check_accessSync, with accessSync outside the try block: its error
\* leaves checkDatabaseAccess and the handler.
Check_accessSync_Uncaught ==
    /\ hpc = "accessSync"
    /\ \/ /\ Log(<<"accessSync", "ok">>)
          /\ hpc' = "probeOpen"
          /\ result' = result
       \/ \E e \in Errors :
          /\ Log(<<"accessSync", e>>)
          /\ hpc' = "done"
          /\ result' = [kind |-> "thrown", text |-> <<e>>]
    /\ UNCHANGED <<tool, args, dbCheck, stack, openConns, ret, sendRet, fn, arg, out, storeWrites, connOptions>>

\* accessSync(MESSAGES_DB_PATH, constants.R_OK), inside the try block.
Check_accessSync ==
    /\ hpc = "accessSync"
    /\ \/ /\ Log(<<"accessSync", "ok">>)
          /\ hpc' = "probeOpen"
          /\ dbCheck' = dbCheck
       \/ \E e \in Errors :
          /\ Log(<<"accessSync", e>>)
          /\ hpc' = "checked"
          /\ dbCheck' = CatchAccessError(e)
    /\ UNCHANGED <<tool, args, stack, openConns, ret, sendRet, result, fn, arg, out, storeWrites, connOptions>>

\* const db = new Database(MESSAGES_DB_PATH, { readonly: true })
Check_probeOpen ==
    /\ hpc = "probeOpen"
    /\ \/ /\ Log(<<"open", "probe", "ok">>)
          /\ hpc' = "probeClose"
          /\ openConns' = openConns + 1
          /\ connOptions' = connOptions \cup {ProbeOptions}
          /\ dbCheck' = dbCheck
       \/ \E e \in Errors :
          /\ Log(<<"open", "probe", e>>)
          /\ hpc' = "checked"
          /\ openConns' = openConns
          /\ connOptions' = connOptions
          /\ dbCheck' = CatchAccessError(e)
    /\ UNCHANGED <<tool, args, stack, ret, sendRet, result, fn, arg, out, storeWrites>>

\* db.close(); return { accessible: true }
Check_probeClose ==
    /\ hpc = "probeClose"
    /\ Log(<<"close", "probe">>)
    /\ openConns' = openConns - 1
    /\ hpc' = "checked"
    /\ dbCheck' = AccessOk
    /\ UNCHANGED <<tool, args, stack, ret, sendRet, result, fn, arg, out, storeWrites, connOptions>>

\* The text a handler answers with when the check reports not accessible.
CheckFailedResult(t, check) ==
    IF t \in Resources
    THEN [kind |-> "thrown", text |-> check.error]
    ELSE IF t = "check_database_access"
    THEN [kind |-> "isError", text |-> <<"Database access failed:">> \o check.error]
    ELSE [kind |-> "isError", text |-> check.error]

\* Frame of a repository operation that has just been called.
NewFrame(op) == [op |-> op, pc |-> "getDatabase", rows |-> 0, exc |-> None]

\* As AfterCheck, without the early return on a failed check.
AfterCheck_NoEarlyReturn ==
    /\ hpc = "checked"
    /\ hpc' = "query"
    /\ stack' = <<NewFrame(ToolOp(tool))>>
    /\ Log(<<"call", ToolOp(tool)>>)
    /\ result' = result
    /\ UNCHANGED <<tool, args, dbCheck, openConns, ret, sendRet, fn, arg, out, storeWrites, connOptions>>

\* if (!dbCheck.accessible) return {..., isError: true}; otherwise the handler
\* calls its repository operation.
AfterCheck ==
    /\ hpc = "checked"
    /\ IF dbCheck.accessible
       THEN /\ hpc' = "query"
            /\ stack' = <<NewFrame(ToolOp(tool))>>
            /\ Log(<<"call", ToolOp(tool)>>)
            /\ result' = result
       ELSE /\ hpc' = "done"
            /\ stack' = stack
            /\ trace' = trace
            /\ result' = CheckFailedResult(tool, dbCheck)
    /\ UNCHANGED <<tool, args, dbCheck, openConns, ret, sendRet, fn, arg, out, storeWrites, connOptions>>

---------------------------------------------------------------------------
(* The query repository                                                    *)

\* Every exported query operation of lib/database.ts.
RepoOps ==
    {"getDatabaseStats", "getRecentMessages", "getConversation", "searchMessages",
     "listChats", "getUnreadCount", "getAttachmentsForMessage", "getRecentAttachments",
     "getGroupChatMembers", "findChatByContact"}

\* Number of rows a statement of the operation can give: .get() of an aggregate
\* gives one row, .get() of a LIMIT 1 query none or one, .all() any number.
RowCounts(op) ==
    IF op \in {"getDatabaseStats", "getUnreadCount"} THEN {1}
    ELSE IF op = "findChatByContact" THEN {0, 1}
    ELSE 0..MaxRows

Top == stack[Len(stack)]

SetTop(f) == [stack EXCEPT ![Len(stack)] = f]

Pop == SubSeq(stack, 1, Len(stack) - 1)

\* A frame returns to its caller, normally (exc = None) or by raising exc.
\* The caller of a nested getAttachmentsForMessage is the row mapping of
\* getRecentAttachments; the caller of an outermost operation is the handler.
ReturnTo(exc) ==
    IF Len(stack) > 1
    THEN LET parent == stack[Len(stack) - 1] IN
         /\ stack' = [Pop EXCEPT ![Len(stack) - 1] =
                IF exc = None
                THEN [parent EXCEPT !.rows = parent.rows - 1,
                                    !.pc = IF parent.rows = 1 THEN "finally" ELSE "map"]
                ELSE [parent EXCEPT !.exc = exc, !.pc = "finally"]]
         /\ ret' = ret
    ELSE /\ stack' = << >>
         /\ ret' = IF exc = None THEN [status |-> "returned"]
                                 ELSE [status |-> "raised", err |-> exc]

\* const db = getDatabase(): new Database(path, {readonly: true}), before the
\* try block.  A failure leaves the operation with no connection.
getDatabase ==
    /\ hpc = "query" /\ stack # << >> /\ Top.pc = "getDatabase"
    /\ \/ /\ Log(<<"open", Top.op, "ok">>)
          /\ openConns' = openConns + 1
          /\ connOptions' = connOptions \cup {DatabaseOptions}
          /\ stack' = SetTop([Top EXCEPT !.pc = "prepare"])
          /\ ret' = ret
       \/ \E e \in Errors :
          /\ Log(<<"open", Top.op, e>>)
          /\ openConns' = openConns
          /\ connOptions' = connOptions
          /\ ReturnTo(e)
    /\ UNCHANGED <<hpc, tool, args, dbCheck, sendRet, result, fn, arg, out, storeWrites>>

\* db.prepare(query).all(...params) or .get(...), inside the try block.
prepareAndRun ==
    /\ hpc = "query" /\ stack # << >> /\ Top.pc = "prepare"
    /\ \/ \E n \in RowCounts(Top.op) :
          /\ Log(<<"statement", Top.op, "ok">>)
          /\ stack' = SetTop([Top EXCEPT !.rows = n,
                                         !.pc = IF n = 0 THEN "finally" ELSE "map"])
       \/ \E e \in Errors :
          /\ Log(<<"statement", Top.op, e>>)
          /\ stack' = SetTop([Top EXCEPT !.exc = e, !.pc = "finally"])
    /\ storeWrites' = AfterStatement(StatementKind(Top.op), DatabaseOptions)
    /\ UNCHANGED <<hpc, tool, args, dbCheck, openConns, ret, sendRet, result, fn, arg, out, connOptions>>

\* One row goes through the mapping function.  The mapping of
\* getRecentAttachments calls getAttachmentsForMessage(msg.rowid) for its row.
mapRow ==
    /\ hpc = "query" /\ stack # << >> /\ Top.pc = "map"
    /\ \/ \E e \in Errors :
          /\ stack' = SetTop([Top EXCEPT !.exc = e, !.pc = "finally"])
          /\ Log(<<"map", Top.op, e>>)
       \/ /\ Top.op = "getRecentAttachments"
          /\ stack' = Append(stack, NewFrame("getAttachmentsForMessage"))
          /\ Log(<<"call", "getAttachmentsForMessage">>)
       \/ /\ Top.op # "getRecentAttachments"
          /\ stack' = SetTop([Top EXCEPT !.rows = Top.rows - 1,
                                !.pc = IF Top.rows = 1 THEN "finally" ELSE "map"])
          /\ trace' = trace
    /\ UNCHANGED <<hpc, tool, args, dbCheck, openConns, ret, sendRet, result, fn, arg, out, storeWrites, connOptions>>

\* As finallyClose, with db.close() at the end of the try body and no finally:
\* a pending exception skips it.
finallyClose_NoFinally ==
    /\ hpc = "query" /\ stack # << >> /\ Top.pc = "finally"
    /\ IF Top.exc = None
       THEN /\ Log(<<"close", Top.op>>)
            /\ openConns' = openConns - 1
       ELSE /\ trace' = trace
            /\ openConns' = openConns
    /\ ReturnTo(Top.exc)
    /\ UNCHANGED <<hpc, tool, args, dbCheck, sendRet, result, fn, arg, out, storeWrites, connOptions>>

\* finally { db.close() }, then the return value or the pending exception
\* reaches the caller.
finallyClose ==
    /\ hpc = "query" /\ stack # << >> /\ Top.pc = "finally"
    /\ Log(<<"close", Top.op>>)
    /\ openConns' = openConns - 1
    /\ ReturnTo(Top.exc)
    /\ UNCHANGED <<hpc, tool, args, dbCheck, sendRet, result, fn, arg, out, storeWrites, connOptions>>

\* The handler has no try/catch around its repository call: a raised error
\* leaves the handler as it is; a returned value is serialized.
Respond ==
    /\ hpc = "query" /\ stack = << >> /\ ret.status # "none"
    /\ hpc' = "done"
    /\ result' = IF ret.status = "raised"
                 THEN [kind |-> "thrown", text |-> <<ret.err>>]
                 ELSE [kind |-> "ok", text |-> <<ToolOp(tool)>>]
    /\ UNCHANGED <<tool, args, dbCheck, stack, openConns, ret, sendRet, trace, fn, arg, out, storeWrites, connOptions>>

---------------------------------------------------------------------------
(* sendMessage                                                             *)

\* runAppleScript: throw new Error(`AppleScript error: ${getErrorMessage(error)}`)
AppleScriptError(e) == <<"AppleScript error: ", e>>

\* throw new Error(`Failed to send message: ${getErrorMessage(error)}`), where
\* error is the one caught from the first runAppleScript.
SendFailure(primary) == [status |-> "raised", err |-> <<"Failed to send message: ">> \o primary]

SentText == <<"Message sent successfully to ", "recipient">>

SentViaSmsText == <<"Message sent via SMS to ", "recipient", " (iMessage unavailable)">>

\* As Send_primary, without the SMS fallback: every failure throws at once.
Send_primary_NoFallback ==
    /\ hpc = "send"
    /\ LET script == IF args.groupChat THEN "chat" ELSE "iMessage" IN
       \/ /\ Log(<<"osascript", script, "ok">>)
          /\ sendRet' = [status |-> "returned", text |-> SentText]
       \/ \E e \in Errors :
          /\ Log(<<"osascript", script, e>>)
          /\ sendRet' = SendFailure(AppleScriptError(e))
    /\ hpc' = "sent"
    /\ UNCHANGED <<tool, args, dbCheck, stack, openConns, ret, result, fn, arg, out, storeWrites, connOptions>>

\* await runAppleScript(script): the group-chat script or the iMessage script.
\* On failure an individual send goes on to the SMS script, a group send throws.
Send_primary ==
    /\ hpc = "send"
    /\ LET script == IF args.groupChat THEN "chat" ELSE "iMessage" IN
       \/ /\ Log(<<"osascript", script, "ok">>)
          /\ sendRet' = [status |-> "returned", text |-> SentText]
          /\ hpc' = "sent"
       \/ \E e \in Errors :
          /\ Log(<<"osascript", script, e>>)
          /\ IF args.groupChat
             THEN /\ sendRet' = SendFailure(AppleScriptError(e))
                  /\ hpc' = "sent"
             ELSE /\ sendRet' = [status |-> "caught", err |-> AppleScriptError(e)]
                  /\ hpc' = "sms"
    /\ UNCHANGED <<tool, args, dbCheck, stack, openConns, ret, result, fn, arg, out, storeWrites, connOptions>>

\* As Send_sms, with the error of the SMS script in the failure raised.
Send_sms_RaisesSmsError ==
    /\ hpc = "sms"
    /\ \/ /\ Log(<<"osascript", "SMS", "ok">>)
          /\ sendRet' = [status |-> "returned", text |-> SentViaSmsText]
       \/ \E e \in Errors :
          /\ Log(<<"osascript", "SMS", e>>)
          /\ sendRet' = SendFailure(AppleScriptError(e))
    /\ hpc' = "sent"
    /\ UNCHANGED <<tool, args, dbCheck, stack, openConns, ret, result, fn, arg, out, storeWrites, connOptions>>

\* await runAppleScript(smsScript), in the inner try whose catch is empty.
Send_sms ==
    /\ hpc = "sms"
    /\ \/ /\ Log(<<"osascript", "SMS", "ok">>)
          /\ sendRet' = [status |-> "returned", text |-> SentViaSmsText]
       \/ \E e \in Errors :
          /\ Log(<<"osascript", "SMS", e>>)
          /\ sendRet' = SendFailure(sendRet.err)
    /\ hpc' = "sent"
    /\ UNCHANGED <<tool, args, dbCheck, stack, openConns, ret, result, fn, arg, out, storeWrites, connOptions>>

\* check_imessage_available: checkImessageAvailable(recipient) runs one script
\* and turns every failure into false; the handler answers with one of two texts.
Call_checkImessageAvailable ==
    /\ hpc = "automation" /\ tool = "check_imessage_available"
    /\ \/ \E available \in BOOLEAN :
          /\ Log(<<"osascript", "available", "ok">>)
          /\ result' = [kind |-> "ok",
                        text |-> IF available THEN <<"recipient", " has iMessage available">>
                                 ELSE <<"recipient", " does not have iMessage">>]
       \/ \E e \in Errors :
          /\ Log(<<"osascript", "available", e>>)
          /\ result' = [kind |-> "ok", text |-> <<"recipient", " does not have iMessage">>]
    /\ hpc' = "done"
    /\ UNCHANGED <<tool, args, dbCheck, stack, openConns, ret, sendRet, fn, arg, out, storeWrites, connOptions>>

\* search_contacts: searchContacts(query) runs one script and parses its
\* output; the handler catches what is raised and answers "Search failed: ...".
Call_searchContacts ==
    /\ hpc = "automation" /\ tool = "search_contacts"
    /\ \/ \E parsed \in BOOLEAN :
          /\ Log(<<"osascript", "contacts", "ok">>)
          /\ result' = IF parsed THEN [kind |-> "ok", text |-> <<"contacts">>]
                        ELSE [kind |-> "isError", text |-> <<"Search failed: ", "JSON.parse">>]
       \/ \E e \in Errors :
          /\ Log(<<"osascript", "contacts", e>>)
          /\ result' = [kind |-> "isError",
                        text |-> <<"Search failed: ">> \o AppleScriptError(e)]
    /\ hpc' = "done"
    /\ UNCHANGED <<tool, args, dbCheck, stack, openConns, ret, sendRet, fn, arg, out, storeWrites, connOptions>>

\* The send_message handler: the result text, or the caught error's message
\* with isError.
SendRespond ==
    /\ hpc = "sent"
    /\ hpc' = "done"
    /\ result' = IF sendRet.status = "raised"
                 THEN [kind |-> "isError", text |-> sendRet.err]
                 ELSE [kind |-> "ok", text |-> sendRet.text]
    /\ UNCHANGED <<tool, args, dbCheck, stack, openConns, ret, sendRet, trace, fn, arg, out, storeWrites, connOptions>>

\* The response has been delivered; the server waits for the next request.
Finish ==
    /\ hpc = "done"
    /\ hpc' = "idle"
    /\ UNCHANGED <<tool, args, dbCheck, stack, openConns, ret, sendRet, result, trace, fn, arg, out, storeWrites, connOptions>>

Next ==
    \/ Request
    \/ Validate
    \/ Check_existsSync
    \/ Check_accessSync
    \/ Check_probeOpen
    \/ Check_probeClose
    \/ AfterCheck
    \/ getDatabase
    \/ prepareAndRun
    \/ mapRow
    \/ finallyClose
    \/ Respond
    \/ Send_primary
    \/ Send_sms
    \/ SendRespond
    \/ Call_checkImessageAvailable
    \/ Call_searchContacts
    \/ Finish

Spec == Init /\ [][Next]_vars

---------------------------------------------------------------------------
(* Reading the history of a request                                        *)

EventsWhere(P(_)) == {i \in DOMAIN trace : P(trace[i])}

IsRepoOpen(e) == e[1] = "open" /\ e[2] \in RepoOps /\ e[3] = "ok"
IsRepoClose(e) == e[1] = "close" /\ e[2] \in RepoOps
IsRepoStatement(e) == e[1] = "statement"
IsRepoRaise(e) == e[1] \in {"open", "statement", "map"} /\ e[2] \in RepoOps /\ e[3] \in Errors
IsRepoEvent(e) == e[1] \in {"call", "statement", "map"} \/ (e[1] \in {"open", "close"} /\ e[2] \in RepoOps)
IsCheckEvent(e) == e[1] \in {"existsSync", "accessSync"} \/ (e[1] \in {"open", "close"} /\ e[2] = "probe")
IsOsascript(e) == e[1] = "osascript"

Min(S) == CHOOSE x \in S : \A y \in S : x <= y

\* The outermost repository operation of the request has come back to the handler.
OperationOver == hpc \in {"query", "done", "idle"} /\ stack = << >> /\ ret.status # "none"

\* Frames that hold a connection: past getDatabase, not yet through finally.
FramesWithConnection == {i \in DOMAIN stack : stack[i].pc \in {"prepare", "map", "finally"}}

---------------------------------------------------------------------------
(* C1: every connection a query operation opened is closed by the time the *)
(* operation returns or raises, whatever the driver did (statement         *)
(* succeeded, prepare/execute raised, row mapping raised); the first error *)
(* raised inside the operation is the one its caller receives; outside an  *)
(* operation no connection is open.                                        *)
C1_ConnectionsReleased ==
    /\ openConns = Cardinality(FramesWithConnection) + (IF hpc = "probeClose" THEN 1 ELSE 0)
    /\ hpc \in {"idle", "validate", "done"} => openConns = 0
    /\ OperationOver =>
          /\ openConns = 0
          /\ Cardinality(EventsWhere(IsRepoOpen)) = Cardinality(EventsWhere(IsRepoClose))
          /\ (ret.status = "raised") = (EventsWhere(IsRepoRaise) # {})
          /\ ret.status = "raised" => ret.err = trace[Min(EventsWhere(IsRepoRaise))][3]
          /\ hpc \in {"done", "idle"} /\ ret.status = "raised" =>
                result = [kind |-> "thrown", text |-> <<ret.err>>]

\* A nested getAttachmentsForMessage raised on its statement, both
\* connections have been closed and the error has reached the handler's caller.
C1_Witness ==
    /\ hpc = "done"
    /\ tool = "get_attachments"
    /\ result.kind = "thrown"
    /\ \E i \in DOMAIN trace :
          /\ trace[i][1] = "statement"
          /\ trace[i][2] = "getAttachmentsForMessage"
          /\ trace[i][3] \in Errors
    /\ Cardinality(EventsWhere(IsRepoClose)) = 2
    /\ openConns = 0

(* C2: every read operation opens exactly one connection, executes exactly *)
(* one statement on it and closes it before returning; never is more than  *)
(* one connection open.                                                    *)
C2_OneConnectionOneStatement ==
    /\ openConns <= 1
    /\ OperationOver =>
          /\ Cardinality(EventsWhere(IsRepoOpen)) <= 1
          /\ Cardinality(EventsWhere(IsRepoStatement)) <= 1
          /\ ret.status = "returned" =>
                /\ Cardinality(EventsWhere(IsRepoOpen)) = 1
                /\ Cardinality(EventsWhere(IsRepoStatement)) = 1

\* The same statement for every operation but getRecentAttachments.
C2_AllButRecentAttachments == tool # "get_attachments" => C2_OneConnectionOneStatement

(* C3: in a store-backed request the access check runs before any          *)
(* repository query; when it reports not accessible (a missing file is     *)
(* reported with the not-found message) the request ends with that error   *)
(* and no repository query is attempted.                                   *)
C3_CheckBeforeQuery ==
    tool \in StoreTools =>
       /\ EventsWhere(IsRepoEvent) # {} =>
             /\ dbCheck.done /\ dbCheck.accessible
             /\ trace[1] = <<"existsSync", "true">>
             /\ \A i \in EventsWhere(IsCheckEvent) : \A j \in EventsWhere(IsRepoEvent) : i < j
       /\ hpc = "query" => dbCheck.done /\ dbCheck.accessible
       /\ dbCheck.done /\ ~dbCheck.accessible =>
             /\ EventsWhere(IsRepoEvent) = {}
             /\ hpc \in {"checked", "done", "idle"}
             /\ hpc \in {"done", "idle"} => result = CheckFailedResult(tool, dbCheck)
       /\ (\E i \in DOMAIN trace : trace[i] = <<"existsSync", "false">>) =>
             /\ dbCheck = AccessNotFound
             /\ EventsWhere(IsRepoEvent) = {}

\* get_recent_messages has ended with the not-found error of a missing file.
C3_Witness ==
    /\ hpc = "done"
    /\ tool = "get_recent_messages"
    /\ dbCheck = AccessNotFound
    /\ result = [kind |-> "isError", text |-> NotFoundMessage]

(* C4: checkDatabaseAccess never raises and always returns a structured    *)
(* result: not-found without the permission check or the probe when the    *)
(* file is missing; the grant-access message without the probe when the    *)
(* permission check fails; the grant-access message with the underlying    *)
(* error when the probe fails; accessible (no error field) only after all  *)
(* three steps succeeded.                                                  *)
C4_AccessCheckResult ==
    LET has(e) == \E i \in DOMAIN trace : trace[i] = e
        raisedIn(step) == {e \in Errors : has(step \o <<e>>)}
        checkRunning == hpc \in {"accessSync", "probeOpen", "probeClose"}
    IN  tool \in StoreTools =>
          /\ EventsWhere(IsCheckEvent) # {} => dbCheck.done # checkRunning
          /\ dbCheck.done =>
                /\ has(<<"existsSync", "false">>) =>
                      /\ dbCheck = AccessNotFound
                      /\ EventsWhere(IsCheckEvent) = {1}
                /\ \A e \in raisedIn(<<"accessSync">>) :
                      /\ dbCheck = [done |-> TRUE, accessible |-> FALSE, error |-> GrantAccessMessage(e)]
                      /\ ~\E i \in DOMAIN trace : trace[i][1] = "open"
                /\ \A e \in raisedIn(<<"open", "probe">>) :
                      dbCheck = [done |-> TRUE, accessible |-> FALSE, error |-> GrantAccessMessage(e)]
                /\ dbCheck.accessible =
                      (/\ has(<<"existsSync", "true">>)
                       /\ has(<<"accessSync", "ok">>)
                       /\ has(<<"open", "probe", "ok">>))
                /\ dbCheck.accessible => DOMAIN dbCheck = {"done", "accessible"}
                /\ ~dbCheck.accessible => "error" \in DOMAIN dbCheck

\* The probe open failed after the file was found readable.
C4_Witness ==
    /\ hpc = "checked"
    /\ trace = <<<<"existsSync", "true">>, <<"accessSync", "ok">>, <<"open", "probe", "err_b">>>>
    /\ dbCheck = CatchAccessError("err_b")

(* C5: an individual send whose iMessage call fails tries the SMS script   *)
(* exactly once before any failure is surfaced: a success string if SMS    *)
(* succeeds, a raised error if it fails too; a group send makes no second  *)
(* attempt; no send makes more than two external calls or repeats one.     *)
C5_SmsFallbackOnce ==
    LET calls == EventsWhere(IsOsascript)
        script(i) == trace[i][2]
        failed(i) == trace[i][3] \in Errors
        sendOver == hpc \in {"sent", "done", "idle"} /\ sendRet.status # "none"
    IN  tool = "send_message" =>
          /\ Cardinality(calls) <= 2
          /\ \A i, j \in calls : i # j => script(i) # script(j)
          /\ \A i \in calls : script(i) = "SMS" =>
                i = 2 /\ ~args.groupChat /\ script(1) = "iMessage" /\ failed(1)
          /\ sendRet.status = "raised" /\ ~args.groupChat =>
                Cardinality(calls) = 2 /\ failed(2)
          /\ sendOver =>
                /\ calls # {} /\ script(1) = (IF args.groupChat THEN "chat" ELSE "iMessage")
                /\ ~failed(1) => Cardinality(calls) = 1 /\ sendRet.status = "returned"
                /\ failed(1) /\ args.groupChat =>
                      Cardinality(calls) = 1 /\ sendRet.status = "raised"
                /\ failed(1) /\ ~args.groupChat =>
                      /\ Cardinality(calls) = 2
                      /\ ~failed(2) => sendRet = [status |-> "returned", text |-> SentViaSmsText]
                      /\ failed(2) => sendRet.status = "raised"

\* The iMessage call failed and the SMS call delivered the message.
C5_Witness ==
    /\ hpc = "sent"
    /\ ~args.groupChat
    /\ Len(trace) = 2
    /\ trace[1][3] \in Errors
    /\ trace[2] = <<"osascript", "SMS", "ok">>
    /\ sendRet = [status |-> "returned", text |-> SentViaSmsText]

---------------------------------------------------------------------------
(* Numbers beyond 32 bits                                                  *)
(*                                                                         *)
(* Native timestamps and millisecond clocks do not fit a machine integer   *)
(* of the checker, so a number n is held exactly as the pair <<hi, lo>>    *)
(* with n = hi * 10^9 + lo and 0 <= lo < 10^9 (hi may be negative).        *)
(* Arithmetic is exact: the rounding of IEEE doubles is not modelled.      *)

Billion == 1000000000

Big(hi, lo) == <<hi + (lo \div Billion), lo % Billion>>

BigAdd(a, b) == Big(a[1] + b[1], a[2] + b[2])

BigSub(a, b) == Big(a[1] - b[1], a[2] - b[2])

BigLess(a, b) == a[1] < b[1] \/ (a[1] = b[1] /\ a[2] < b[2])

BigLeq(a, b) == a = b \/ BigLess(a, b)

\* a * 1000
BigTimesThousand(a) == <<a[1] * 1000 + (a[2] \div 1000000), (a[2] % 1000000) * 1000>>

\* a * 10^6
BigTimesMillion(a) == <<a[1] * 1000000 + (a[2] \div 1000), (a[2] % 1000) * 1000000>>

\* floor(a / 10^6)
BigDivMillion(a) == <<a[1] \div 1000000, (a[1] % 1000000) * 1000 + (a[2] \div 1000000)>>

---------------------------------------------------------------------------
(* lib/utils.ts: timestamps                                                *)

COCOA_EPOCH_DIFF == 978307200

\* The literal 1e12 of cocoaTimestampToDate.
NanosecondThreshold == <<1000, 0>>

\* A Date is its time value: whole milliseconds since the Unix epoch.
\* cocoaTimestampToDate: a timestamp above 1e12 is divided by 1e9; then
\* new Date((timestamp + COCOA_EPOCH_DIFF) * 1000), which drops the fraction
\* of a millisecond.  The seconds of the nanosecond branch are held in
\* nanoseconds: (t + DIFF * 10^9) * 1000 / 10^9 = floor((t + DIFF * 10^9) / 10^6).
cocoaTimestampToDate_AtOrAbove(timestamp) ==
    IF BigLeq(NanosecondThreshold, timestamp)
    THEN BigDivMillion(BigAdd(timestamp, <<COCOA_EPOCH_DIFF, 0>>))
    ELSE BigTimesThousand(BigAdd(timestamp, <<0, COCOA_EPOCH_DIFF>>))

cocoaTimestampToDate(timestamp) ==
    IF BigLess(NanosecondThreshold, timestamp)
    THEN BigDivMillion(BigAdd(timestamp, <<COCOA_EPOCH_DIFF, 0>>))
    ELSE BigTimesThousand(BigAdd(timestamp, <<0, COCOA_EPOCH_DIFF>>))

\* dateToCocoaTimestamp: (date.getTime() / 1000 - COCOA_EPOCH_DIFF) * 1e9.
\* The seconds are held in thousandths: (ms - DIFF * 1000) * 10^6.
dateToCocoaTimestamp_Microseconds(date) ==
    BigTimesThousand(BigSub(date, BigTimesThousand(<<0, COCOA_EPOCH_DIFF>>)))

dateToCocoaTimestamp(date) ==
    BigTimesMillion(BigSub(date, BigTimesThousand(<<0, COCOA_EPOCH_DIFF>>)))

\* hoursAgoToCocoaTimestamp, with Date.now() = now and hours in tenths:
\* cutoffTime = now - hours * 60 * 60 * 1000;
\* return (cutoffTime / 1000 - COCOA_EPOCH_DIFF) * 1e9.
hoursAgoToCocoaTimestamp_Minutes(now, hourTenths) ==
    LET cutoffTime == BigSub(now, <<0, hourTenths * 6 * 1000>>)
    IN  BigTimesMillion(BigSub(cutoffTime, BigTimesThousand(<<0, COCOA_EPOCH_DIFF>>)))

hoursAgoToCocoaTimestamp(now, hourTenths) ==
    LET cutoffTime == BigSub(now, <<0, hourTenths * 6 * 60 * 1000>>)
    IN  BigTimesMillion(BigSub(cutoffTime, BigTimesThousand(<<0, COCOA_EPOCH_DIFF>>)))

---------------------------------------------------------------------------
(* Evaluating the pure helpers                                             *)

\* Native timestamps: around zero, around the threshold 10^12, and of today.
TimestampInputs ==
    {<<hi, lo>> : hi \in {-1, 0, 1, 999, 1000, 1001, 700000000, 756864000},
                  lo \in {0, 1, 999999, 1000000, 500000000, 999999999}}

\* The 2001 epoch as a Unix time in milliseconds.
EpochMs == BigTimesThousand(<<0, COCOA_EPOCH_DIFF>>)

\* Wall-clock times, as milliseconds since the Unix epoch: before and at the
\* 2001 epoch, within its first 1000 seconds and beyond, 2024-01-01, 2026.
DateInputs ==
    {BigAdd(EpochMs, <<hi, lo>>) : hi \in {-1, 0, 725, 812},
                                   lo \in {0, 1, 1000, 999999, 1000000, 1000001,
                                           760000000, 999999000}}

\* Largest lookback, in tenths of an hour, the harness evaluates (168 hours).
MaxHourTenths == 1680

HourInputs == {h \in {0, 1, 5, 10, 15, 20, 240, 1680, MaxHourTenths} : h <= MaxHourTenths}

NowInputs == {BigAdd(EpochMs, <<hi, lo>>) : hi \in {725, 812}, lo \in {0, 760000123}}

TimeFns == {"cocoaTimestampToDate", "dateToCocoaTimestamp", "hoursAgoToCocoaTimestamp"}

TimeInputs(f) ==
    CASE f = "cocoaTimestampToDate" -> {<<t>> : t \in TimestampInputs}
      [] f = "dateToCocoaTimestamp" -> {<<d>> : d \in DateInputs}
      [] f = "hoursAgoToCocoaTimestamp" ->
            {<<now, h1, h2>> : now \in NowInputs, h1 \in HourInputs, h2 \in HourInputs}

TimeInit ==
    /\ ServerInit
    /\ fn \in TimeFns
    /\ arg \in TimeInputs(fn)
    /\ out = << >>

Apply_cocoaTimestampToDate ==
    /\ fn = "cocoaTimestampToDate" /\ out = << >>
    /\ out' = <<cocoaTimestampToDate(arg[1])>>
    /\ UNCHANGED <<serverVars, fn, arg>>

\* A date goes to its native timestamp and back.
Apply_dateToCocoaTimestamp ==
    /\ fn = "dateToCocoaTimestamp" /\ out = << >>
    /\ LET native == dateToCocoaTimestamp(arg[1])
       IN  out' = <<native, cocoaTimestampToDate(native)>>
    /\ UNCHANGED <<serverVars, fn, arg>>

\* Two lookbacks and the present, all taken at the same Date.now().
Apply_hoursAgoToCocoaTimestamp ==
    /\ fn = "hoursAgoToCocoaTimestamp" /\ out = << >>
    /\ out' = <<hoursAgoToCocoaTimestamp(arg[1], arg[2]),
                hoursAgoToCocoaTimestamp(arg[1], arg[3]),
                dateToCocoaTimestamp(arg[1])>>
    /\ UNCHANGED <<serverVars, fn, arg>>

TimeNext ==
    \/ Apply_cocoaTimestampToDate
    \/ Apply_dateToCocoaTimestamp
    \/ Apply_hoursAgoToCocoaTimestamp

TimeSpec == TimeInit /\ [][TimeNext]_vars

---------------------------------------------------------------------------
(* C6: cocoaTimestampToDate treats every t <= 10^12 as seconds since the   *)
(* 2001 epoch and every t > 10^12 as nanoseconds, then adds the offset     *)
(* 978,307,200 s; 10^12 itself is treated as seconds.  With w the result   *)
(* in milliseconds since the 2001 epoch: w = t * 1000 for seconds, and t   *)
(* lies in millisecond w (w * 10^6 <= t < (w + 1) * 10^6) for nanoseconds. *)
C6_ThresholdSplitsUnits ==
    fn = "cocoaTimestampToDate" /\ out # << >> =>
        LET t == arg[1]
            w == BigSub(out[1], EpochMs)
        IN  IF BigLeq(t, <<1000, 0>>)
            THEN w = BigTimesThousand(t)
            ELSE /\ BigLeq(BigTimesMillion(w), t)
                 /\ BigLess(t, BigTimesMillion(BigAdd(w, <<0, 1>>)))

\* The boundary value 10^12 has been converted, as 10^12 seconds.
C6_Witness ==
    /\ fn = "cocoaTimestampToDate"
    /\ arg = << <<1000, 0>> >>
    /\ out = << <<1000978, 307200000>> >>

(* C7, as claimed: for any wall-clock time x,                              *)
(* cocoaTimestampToDate(dateToCocoaTimestamp(x)) is within one second of x.*)
C7_RoundTripAnyDate ==
    fn = "dateToCocoaTimestamp" /\ out # << >> =>
        /\ BigLeq(BigSub(arg[1], <<0, 1000>>), out[2])
        /\ BigLeq(out[2], BigAdd(arg[1], <<0, 1000>>))

(* C7, amended: the round trip is within one second of x exactly when the  *)
(* native timestamp of x exceeds 10^12 (x later than 1000 s after the 2001 *)
(* epoch) or x is the 2001 epoch itself.                                   *)
C7_RoundTripAboveThreshold ==
    fn = "dateToCocoaTimestamp" /\ out # << >> =>
        ( (BigLess(<<1000, 0>>, out[1]) \/ arg[1] = EpochMs)
          <=> ( /\ BigLeq(BigSub(arg[1], <<0, 1000>>), out[2])
                /\ BigLeq(out[2], BigAdd(arg[1], <<0, 1000>>)) ) )

\* 2024-01-01T00:00:00Z has gone to its native timestamp and back.
C7_Witness ==
    /\ fn = "dateToCocoaTimestamp"
    /\ arg = << <<1704, 67200000>> >>
    /\ out = << <<725760000, 0>>, <<1704, 67200000>> >>

(* C8: at a fixed current time, hoursAgoToCocoaTimestamp(h) strictly       *)
(* decreases as h increases, is below dateToCocoaTimestamp(now) for h > 0, *)
(* and the values for 1 and 2 hours differ by exactly 3600 * 10^9.         *)
C8_HoursAgoDecreases ==
    fn = "hoursAgoToCocoaTimestamp" /\ out # << >> =>
        /\ arg[2] < arg[3] => BigLess(out[2], out[1])
        /\ arg[2] > 0 => BigLess(out[1], out[3])
        /\ arg[2] = 10 /\ arg[3] = 20 => BigSub(out[1], out[2]) = <<3600, 0>>

\* One hour and two hours ago have been computed at the same current time.
C8_Witness ==
    /\ fn = "hoursAgoToCocoaTimestamp"
    /\ arg[2] = 10 /\ arg[3] = 20
    /\ out # << >>
    /\ BigLess(out[2], out[1])

---------------------------------------------------------------------------
(* lib/utils.ts: normalizeLimit, normalizeHours, normalizeDays             *)
(*                                                                         *)
(* A JavaScript value is undefined, null, NaN or a number; a number is     *)
(* held as a whole count of 1/Unit, so that fractions exist.               *)

Unit == 2

Undefined == [t |-> "undefined"]
Null == [t |-> "null"]
NaN == [t |-> "nan"]
Num(n) == [t |-> "num", v |-> n]

\* limit <= 0 and limit > maxLimit: a comparison with NaN is false.
JsLeqZero(x) == x.t = "num" /\ x.v <= 0
JsGreater(x, y) == x.t = "num" /\ y.t = "num" /\ x.v > y.v

\* Math.floor
MathFloor(x) == IF x.t = "num" THEN Num((x.v \div Unit) * Unit) ELSE NaN

normalizeLimit_NoFloor(limit, defaultLimit, maxLimit) ==
    IF limit.t \in {"undefined", "null"} THEN defaultLimit
    ELSE IF JsLeqZero(limit) THEN defaultLimit
    ELSE IF JsGreater(limit, maxLimit) THEN maxLimit
    ELSE limit

\* As normalizeLimit, without the clamp to maxLimit.
normalizeLimit_NoClamp(limit, defaultLimit, maxLimit) ==
    IF limit.t \in {"undefined", "null"} THEN defaultLimit
    ELSE IF JsLeqZero(limit) THEN defaultLimit
    ELSE MathFloor(limit)

normalizeLimit(limit, defaultLimit, maxLimit) ==
    IF limit.t \in {"undefined", "null"} THEN defaultLimit
    ELSE IF JsLeqZero(limit) THEN defaultLimit
    ELSE IF JsGreater(limit, maxLimit) THEN maxLimit
    ELSE MathFloor(limit)

normalizeHours(hours, defaultHours, maxHours) ==
    IF hours.t \in {"undefined", "null"} THEN defaultHours
    ELSE IF JsLeqZero(hours) THEN defaultHours
    ELSE IF JsGreater(hours, maxHours) THEN maxHours
    ELSE hours

normalizeDays(days, defaultDays, maxDays) ==
    IF days.t \in {"undefined", "null"} THEN defaultDays
    ELSE IF JsLeqZero(days) THEN defaultDays
    ELSE IF JsGreater(days, maxDays) THEN maxDays
    ELSE days

\* Largest magnitude of a number handed to a normalizer, in 1/Unit.
MaxRaw == 12

NormalizeFns == {"normalizeLimit", "normalizeHours", "normalizeDays"}

NormalizeInputs ==
    {<<v, d, m>> : v \in {Undefined, Null, NaN} \cup {Num(n) : n \in -MaxRaw..MaxRaw},
                   d \in {Num(-Unit), Num(Unit), Num(3 * Unit + 1)},
                   m \in {Num(-Unit), Num(0), Num(2 * Unit), Num(5 * Unit + 1)}}

NormalizeInit ==
    /\ ServerInit
    /\ fn \in NormalizeFns
    /\ arg \in NormalizeInputs
    /\ out = << >>

Apply_normalizeLimit ==
    /\ fn = "normalizeLimit" /\ out = << >>
    /\ out' = <<normalizeLimit(arg[1], arg[2], arg[3])>>
    /\ UNCHANGED <<serverVars, fn, arg>>

Apply_normalizeHours ==
    /\ fn = "normalizeHours" /\ out = << >>
    /\ out' = <<normalizeHours(arg[1], arg[2], arg[3])>>
    /\ UNCHANGED <<serverVars, fn, arg>>

Apply_normalizeDays ==
    /\ fn = "normalizeDays" /\ out = << >>
    /\ out' = <<normalizeDays(arg[1], arg[2], arg[3])>>
    /\ UNCHANGED <<serverVars, fn, arg>>

NormalizeNext ==
    \/ Apply_normalizeLimit
    \/ Apply_normalizeHours
    \/ Apply_normalizeDays

NormalizeSpec == NormalizeInit /\ [][NormalizeNext]_vars

(* C9: for normalizeLimit, normalizeHours and normalizeDays and every     *)
(* (value, default, max), the cases read in order: a missing (undefined or *)
(* null) value gives the default, a value <= 0 the default, a value > max  *)
(* the max, and any other value x (0 < x <= max) gives x for hours and     *)
(* days and floor(x) for limit; no input makes them raise.                 *)
C9_NormalizePolicy ==
    fn \in NormalizeFns /\ out # << >> =>
        LET v == arg[1]
            d == arg[2]
            m == arg[3]
            r == out[1]
        IN  /\ r.t \in {"num", "nan"}
            /\ v.t \in {"undefined", "null"} => r = d
            /\ v.t = "num" /\ v.v <= 0 => r = d
            /\ v.t = "num" /\ 0 < v.v /\ v.v > m.v => r = m
            /\ v.t = "num" /\ 0 < v.v /\ v.v <= m.v =>
                  IF fn = "normalizeLimit"
                  THEN /\ r.t = "num"
                       /\ r.v % Unit = 0
                       /\ r.v <= v.v
                       /\ v.v < r.v + Unit
                  ELSE r = v

\* normalizeLimit has floored a fractional limit that lies inside the range.
C9_Witness ==
    /\ fn = "normalizeLimit"
    /\ arg[1].t = "num" /\ arg[1].v % Unit # 0
    /\ 0 < arg[1].v /\ arg[1].v <= arg[3].v
    /\ out # << >>
    /\ out[1].v < arg[1].v

---------------------------------------------------------------------------
(* lib/utils.ts: formatPhoneNumber                                         *)
(*                                                                         *)
(* A string is the sequence of its characters.                             *)

Digits == {"0", "1", "2", "3", "4", "5", "6", "7", "8", "9"}

IsDigitOrPlus(c) == c \in Digits \cup {"+"}

\* As formatPhoneNumber, ending in `return cleaned` instead of `return phone`.
formatPhoneNumber_ReturnsCleaned(phone) ==
    LET cleaned == SelectSeq(phone, IsDigitOrPlus) IN
    IF Len(cleaned) = 11 /\ cleaned[1] = "1" THEN <<"+">> \o cleaned
    ELSE IF Len(cleaned) = 10 THEN <<"+", "1">> \o cleaned
    ELSE IF Len(cleaned) > 0 /\ cleaned[1] = "+" THEN cleaned
    ELSE cleaned

\* cleaned = phone.replace(/[^\d+]/g, ""), then the three rules in order.
formatPhoneNumber(phone) ==
    LET cleaned == SelectSeq(phone, IsDigitOrPlus) IN
    IF Len(cleaned) = 11 /\ cleaned[1] = "1" THEN <<"+">> \o cleaned
    ELSE IF Len(cleaned) = 10 THEN <<"+", "1">> \o cleaned
    ELSE IF Len(cleaned) > 0 /\ cleaned[1] = "+" THEN cleaned
    ELSE phone

\* Largest number of characters of a contact string before decoration.
MaxDigits == 12

DigitCycle == <<"0", "1", "2", "3", "4", "5", "6", "7", "8", "9">>

\* first, then the digits 2, 3, 4, ... up to n characters.
BaseString(first, n) == [i \in 1..n |-> IF i = 1 THEN first ELSE DigitCycle[(i % 10) + 1]]

InsertAt(s, pos, c) == SubSeq(s, 1, pos) \o <<c>> \o SubSeq(s, pos + 1, Len(s))

Decorations == {"-", " ", "(", ")", "+", "a", "@"}

\* Contact strings: a run of digits (or one led by "+"), plain or with one
\* or two occurrences of a separator or another character put in.
PhoneInputs ==
    LET bases == {BaseString(f, n) : f \in {"1", "5", "+"}, n \in 0..MaxDigits}
        once(b) == {<<InsertAt(b, p, c), c>> : p \in 0..Len(b), c \in Decorations}
        twice(b) == UNION {{InsertAt(d[1], q, d[2]) : q \in 0..Len(d[1])} : d \in once(b)}
    IN  bases \cup UNION {{d[1] : d \in once(b)} \cup twice(b) : b \in bases}

\* Email addresses local@b.c: the local part is a letter and a run of digits,
\* plain, or with a "+" tag put after the letter, or led by the digits.
EmailInputs ==
    LET run(n) == [i \in 1..n |-> DigitCycle[(i % 10) + 1]]
        locals == UNION {{<<"a">> \o run(n), <<"a", "+">> \o run(n), run(n) \o <<"+", "a">>}
                            : n \in 0..MaxDigits}
    IN  {l \o <<"@", "b", ".", "c">> : l \in locals}

PhoneInit ==
    /\ ServerInit
    /\ fn = "formatPhoneNumber"
    /\ arg \in {<<p>> : p \in PhoneInputs \cup EmailInputs}
    /\ out = << >>

Apply_formatPhoneNumber ==
    /\ fn = "formatPhoneNumber" /\ out = << >>
    /\ out' = <<formatPhoneNumber(arg[1])>>
    /\ UNCHANGED <<serverVars, fn, arg>>

PhoneNext == Apply_formatPhoneNumber

PhoneSpec == PhoneInit /\ [][PhoneNext]_vars

Separators == {" ", "-", "(", ")"}

IsNoSeparator(c) == c \notin Separators

(* C10: an input that, with spaces, dashes and parentheses removed, is     *)
(* exactly 10 digits gives "+1" and those digits; one that is exactly 11   *)
(* digits beginning with 1 gives "+" and those digits; an input whose      *)
(* digits and "+" signs match none of the rules (11 characters led by 1,   *)
(* 10 characters, led by "+") is returned as the original string.          *)
C10_PhoneRules ==
    fn = "formatPhoneNumber" /\ out # << >> =>
        LET phone == arg[1]
            bare == SelectSeq(phone, IsNoSeparator)
            digits == \A i \in DOMAIN bare : bare[i] \in Digits
            kept == SelectSeq(phone, IsDigitOrPlus)
        IN  /\ digits /\ Len(bare) = 10 => out[1] = <<"+", "1">> \o bare
            /\ digits /\ Len(bare) = 11 /\ bare[1] = "1" => out[1] = <<"+">> \o bare
            /\ digits /\ Len(bare) \notin {10, 11} => out[1] = phone
            /\ digits /\ Len(bare) = 11 /\ bare[1] # "1" => out[1] = phone
            /\ ( /\ ~(Len(kept) = 11 /\ kept[1] = "1")
                 /\ Len(kept) # 10
                 /\ ~(Len(kept) > 0 /\ kept[1] = "+") ) => out[1] = phone

\* A 3-3-4 number written with dashes has been normalized.
C10_Witness ==
    /\ fn = "formatPhoneNumber"
    /\ arg = << <<"5", "2", "3", "-", "4", "5", "6", "-", "7", "8", "9", "0">> >>
    /\ out = << <<"+", "1", "5", "2", "3", "4", "5", "6", "7", "8", "9", "0">> >>

(* C11: an input whose digits and "+" signs, all other characters removed, *)
(* are a "+" followed only by digits is returned as exactly those kept     *)
(* characters, with no further prefix, however many digits there are.      *)
C11_PlusPrefixedPassThrough ==
    fn = "formatPhoneNumber" /\ out # << >> =>
        LET kept == SelectSeq(arg[1], IsDigitOrPlus) IN
        ( /\ Len(kept) >= 1 /\ kept[1] = "+"
          /\ \A i \in 2..Len(kept) : kept[i] \in Digits ) => out[1] = kept

\* The pass-through does hold whenever "+" and the digits are not 10
\* characters together.
C11_PassThroughUnlessTenCharacters ==
    fn = "formatPhoneNumber" /\ out # << >> =>
        LET kept == SelectSeq(arg[1], IsDigitOrPlus) IN
        ( /\ Len(kept) >= 1 /\ kept[1] = "+" /\ Len(kept) # 10
          /\ \A i \in 2..Len(kept) : kept[i] \in Digits ) => out[1] = kept

\* "+" and nine digits came back with "+1" put in front.
C11_TenCharacters ==
    /\ fn = "formatPhoneNumber"
    /\ arg = << <<"+", "3", "4", "5", "6", "7", "8", "9", "0", "1">> >>
    /\ out = << <<"+", "1", "+", "3", "4", "5", "6", "7", "8", "9", "0", "1">> >>

\* local@domain.tld: one "@" after a non-empty local part, and a "." inside
\* what follows it, with a character on either side.
IsEmail(s) ==
    \E p \in 2..Len(s) :
        /\ s[p] = "@"
        /\ \A i \in DOMAIN s : s[i] = "@" => i = p
        /\ \E q \in (p + 2)..(Len(s) - 1) : s[q] = "."

(* C12: an input that is an email address, whatever letters, digits or     *)
(* "+" it holds, is returned as the input string itself.                   *)
C12_EmailUnaltered ==
    fn = "formatPhoneNumber" /\ out # << >> /\ IsEmail(arg[1]) => out[1] = arg[1]

\* An address is returned as it was exactly when its digits and "+" signs
\* trigger none of the three rules.
C12_EmailUnalteredUnlessRuleApplies ==
    fn = "formatPhoneNumber" /\ out # << >> /\ IsEmail(arg[1]) =>
        LET kept == SelectSeq(arg[1], IsDigitOrPlus) IN
        (out[1] = arg[1]) <=>
            ~ \/ Len(kept) = 11 /\ kept[1] = "1"
              \/ Len(kept) = 10
              \/ Len(kept) > 0 /\ kept[1] = "+"

\* A plus-tagged address without digits came back as "+" alone.
C12_PlusTagged ==
    /\ fn = "formatPhoneNumber"
    /\ arg = << <<"a", "+", "@", "b", ".", "c">> >>
    /\ out = << <<"+">> >>

---------------------------------------------------------------------------
(* lib/database.ts: the store and the statements                           *)
(*                                                                         *)
(* A column value is Null, a string Str(s), a number Num(n), or a number   *)
(* too large for one integer, BigNum(<<hi, lo>>), as the dates are.        *)

Str(s) == [t |-> "str", v |-> s]
BigNum(p) == [t |-> "big", v |-> p]

\* JavaScript truthiness of a column value or an optional argument.
Truthy(x) ==
    CASE x.t = "str" -> x.v # << >>
      [] x.t = "num" -> x.v # 0
      [] x.t = "big" -> x.v # <<0, 0>>
      [] OTHER -> FALSE

\* a || b
OrElse(a, b) == IF Truthy(a) THEN a ELSE b

UpperCase == <<"A", "B", "C", "X">>
LowerCase == <<"a", "b", "c", "x">>

\* SQLite's LIKE folds the ASCII letters.
Fold(c) ==
    IF \E i \in DOMAIN UpperCase : UpperCase[i] = c
    THEN LowerCase[CHOOSE i \in DOMAIN UpperCase : UpperCase[i] = c]
    ELSE c

\* text LIKE pattern on strings: "%" stands for any run of characters, "_"
\* for any one character, letters match without regard to case.
RECURSIVE LikeChars(_, _)
LikeChars(p, s) ==
    IF p = << >> THEN s = << >>
    ELSE IF Head(p) = "%"
         THEN LikeChars(Tail(p), s) \/ (s # << >> /\ LikeChars(p, Tail(s)))
         ELSE /\ s # << >>
              /\ Head(p) = "_" \/ Fold(Head(p)) = Fold(Head(s))
              /\ LikeChars(Tail(p), Tail(s))

\* x LIKE pattern in a WHERE clause: a NULL operand does not select the row.
Like(x, pattern) == x.t = "str" /\ pattern.t = "str" /\ LikeChars(pattern.v, x.v)

\* x = y in a WHERE clause.
SqlEq(x, y) == x.t # "null" /\ y.t # "null" /\ x = y

\* `%${s}%`
Percent(s) == Str(<<"%">> \o s.v \o <<"%">>)

\* sub occurs in s, character for character.
Contains(s, sub) ==
    \E i \in 0..(Len(s) - Len(sub)) : SubSeq(s, i + 1, i + Len(sub)) = sub

\* daysAgoToCocoaTimestamp, with Date.now() = now and days in tenths:
\* cutoffTime = now - days * 24 * 60 * 60 * 1000 (8 640 000 ms a tenth).
daysAgoToCocoaTimestamp(now, dayTenths) ==
    LET ms == <<(dayTenths * 864) \div 100000, ((dayTenths * 864) % 100000) * 10000>>
        cutoffTime == BigSub(now, ms)
    IN  BigTimesMillion(BigSub(cutoffTime, BigTimesThousand(<<0, COCOA_EPOCH_DIFF>>)))

\* formatDate: date.toLocaleString(), a string that renders the Date.
formatDate(date) == [t |-> "str", localeStringOf |-> date]

\* truncate(str, maxLength)
truncate(str, maxLength) ==
    IF Len(str) <= maxLength THEN str
    ELSE SubSeq(str, 1, maxLength - 3) \o <<".", ".", ".">>

\* Identifiers as they are found in stores: a US number in E.164 form, the
\* same number as bare digits and written with dashes, an email address.
TenDigits == BaseString("5", 10)
E164Number == <<"+", "1">> \o TenDigits
DashedNumber == InsertAt(InsertAt(TenDigits, 3, "-"), 7, "-")
EmailAddress == <<"a", "@", "b", ".", "c">>

\* Date.now() of the calls below.
QueryNow == BigAdd(EpochMs, <<812, 760000123>>)

\* handle(ROWID, id)
HandleTable == <<Str(E164Number), Str(EmailAddress), Str(TenDigits)>>

\* chat(ROWID, chat_identifier, display_name, service_name, style): a direct
\* chat without display name, a named group chat (style 43), a direct chat
\* with the empty display name.
ChatTable ==
    << [rowid |-> 1, chat_identifier |-> Str(E164Number), display_name |-> Null,
        service_name |-> Str(<<"i">>), style |-> 45],
       [rowid |-> 2, chat_identifier |-> Str(<<"c", "h", "a", "t", "1">>),
        display_name |-> Str(<<"T", "e", "a", "m">>),
        service_name |-> Str(<<"i">>), style |-> 43],
       [rowid |-> 3, chat_identifier |-> Str(EmailAddress), display_name |-> Str(<< >>),
        service_name |-> Str(<<"S">>), style |-> 45] >>

\* attachment(ROWID, ...)
AttachmentTable == <<[rowid |-> 1], [rowid |-> 2]>>

\* The messages a store is made of: text, age in tenths of an hour, sender
\* handle, flags, the chats and the attachments joined to the message.
MessageKinds ==
    { [text |-> Str(<<"a", "b", "c">>), age |-> 10, handle_id |-> Num(1),
       is_from_me |-> 0, cache_has_attachments |-> 0, chats |-> {1}, attachments |-> {}],
      [text |-> Null, age |-> 240, handle_id |-> Num(2),
       is_from_me |-> 1, cache_has_attachments |-> 1, chats |-> {2, 3}, attachments |-> {1, 2}],
      [text |-> Str(<<"A", "x", "C">>), age |-> 10, handle_id |-> Null,
       is_from_me |-> 0, cache_has_attachments |-> 1, chats |-> {}, attachments |-> {1}],
      [text |-> Str(<<"b">>), age |-> 300, handle_id |-> Num(3),
       is_from_me |-> 0, cache_has_attachments |-> 0, chats |-> {2, 3}, attachments |-> {}],
      [text |-> Str(<<"a", "b", "c">>), age |-> 2000, handle_id |-> Num(1),
       is_from_me |-> 1, cache_has_attachments |-> 0, chats |-> {1}, attachments |-> {}] }

\* Largest number of message rows of a store.
MaxMessages == 2

\* The message table of a store: its rows in ROWID order.
MessageTables == UNION {[1..n -> MessageKinds] : n \in 0..MaxMessages}

\* floor(a / 10^3)
BigDivThousand(a) == <<a[1] \div 1000, (a[1] % 1000) * 1000000 + (a[2] \div 1000)>>

\* message.date of a row: the native timestamp of its age, in nanoseconds
\* since 2001, or in whole seconds since 2001 for a row marked as written
\* in the older unit.
DateOf(kind) ==
    LET wall == BigSub(QueryNow, <<0, kind.age * 360000>>) IN
    IF "unit" \in DOMAIN kind /\ kind.unit = "s"
    THEN BigDivThousand(BigSub(wall, EpochMs))
    ELSE dateToCocoaTimestamp(wall)

\* The store whose message table is kinds.
Store(kinds) ==
    [ message |-> [i \in DOMAIN kinds |->
                    [rowid |-> i, text |-> kinds[i].text, date |-> BigNum(DateOf(kinds[i])),
                     is_from_me |-> kinds[i].is_from_me,
                     cache_has_attachments |-> kinds[i].cache_has_attachments,
                     handle_id |-> kinds[i].handle_id]],
      handle |-> HandleTable,
      chat |-> ChatTable,
      chat_message_join |->
          {<<c, i>> \in (1..Len(ChatTable)) \X (DOMAIN kinds) : c \in kinds[i].chats},
      attachment |-> AttachmentTable,
      message_attachment_join |->
          {<<i, a>> \in (DOMAIN kinds) \X (1..Len(AttachmentTable)) : a \in kinds[i].attachments} ]

---------------------------------------------------------------------------
(* The rows of the FROM clauses                                            *)

\* h.id of message m after LEFT JOIN handle h ON m.handle_id = h.rowid
HandleIdOf(store, m) ==
    IF m.handle_id.t = "num" /\ m.handle_id.v \in DOMAIN store.handle
    THEN store.handle[m.handle_id.v] ELSE Null

\* The chats joined to message m; 0 stands for the row of NULLs a LEFT JOIN
\* gives a message that is in no chat.
ChatsOf(store, m) ==
    LET cs == {c \in DOMAIN store.chat : <<c, m.rowid>> \in store.chat_message_join}
    IN  IF cs = {} THEN {0} ELSE cs

\* The selected columns of message m joined to chat c and attachment a.  The
\* fields cmj and maj tell apart the rows of one message in the join; they
\* are not columns of the result.
MessageRow(store, m, c, a) ==
    [rowid |-> m.rowid, text |-> m.text, date |-> m.date, is_from_me |-> m.is_from_me,
     cache_has_attachments |-> m.cache_has_attachments,
     handle_id |-> HandleIdOf(store, m),
     chat_name |-> IF c = 0 THEN Null ELSE store.chat[c].display_name,
     chat_identifier |-> IF c = 0 THEN Null ELSE store.chat[c].chat_identifier,
     cmj |-> c, maj |-> a]

Messages(store) == {store.message[i] : i \in DOMAIN store.message}

\* FROM message m LEFT JOIN handle h
FromMessageHandle(store) == {MessageRow(store, m, 0, 0) : m \in Messages(store)}

\* FROM message m LEFT JOIN handle h LEFT JOIN chat_message_join cmj LEFT JOIN chat c
FromMessageHandleChat(store) ==
    UNION {{MessageRow(store, m, c, 0) : c \in ChatsOf(store, m)} : m \in Messages(store)}

\* ... JOIN message_attachment_join maj ON m.rowid = maj.message_id
FromMessageHandleChatAttachment(store) ==
    UNION {UNION {{MessageRow(store, m, c, a) :
                        a \in {b \in DOMAIN store.attachment :
                                   <<m.rowid, b>> \in store.message_attachment_join}}
                    : c \in ChatsOf(store, m)}
             : m \in Messages(store)}

\* The messages joined to chat c.
MessagesOfChat(store, c) == {m \in Messages(store) : <<c, m.rowid>> \in store.chat_message_join}

\* x sorts before y in ascending order; NULL sorts before every value.
KeyLess(x, y) ==
    IF x.t = "null" THEN y.t # "null" ELSE y.t # "null" /\ BigLess(x.v, y.v)

\* (SELECT MAX(m.date) ...) of chat c
LastMessageDate(store, c) ==
    LET ms == MessagesOfChat(store, c)
    IN  IF ms = {} THEN Null
        ELSE (CHOOSE m \in ms : \A n \in ms : ~KeyLess(m.date, n.date)).date

\* (SELECT m.text ... ORDER BY m.date DESC LIMIT 1) of chat c: the text of a
\* latest message; which one, when several carry the latest date, is not
\* determined by the statement.
LastMessageChoices(store, c) ==
    LET ms == MessagesOfChat(store, c)
    IN  IF ms = {} THEN {Null}
        ELSE {m.text : m \in {l \in ms : \A n \in ms : ~KeyLess(l.date, n.date)}}

ChatRow(store, c, preview) ==
    [rowid |-> store.chat[c].rowid, chat_identifier |-> store.chat[c].chat_identifier,
     display_name |-> store.chat[c].display_name, service_name |-> store.chat[c].service_name,
     style |-> store.chat[c].style,
     message_count |-> Cardinality({j \in store.chat_message_join : j[1] = c}),
     last_message_date |-> LastMessageDate(store, c),
     last_message |-> preview]

\* FROM chat c, with the three scalar subqueries: one set of rows for each
\* way the previews can come out.
FromChat(store) ==
    LET texts == UNION {LastMessageChoices(store, c) : c \in DOMAIN store.chat}
        picks == {f \in [DOMAIN store.chat -> texts] :
                      \A c \in DOMAIN store.chat : f[c] \in LastMessageChoices(store, c)}
    IN  {{ChatRow(store, c, f[c]) : c \in DOMAIN store.chat} : f \in picks}

---------------------------------------------------------------------------
(* The statements: text and bound parameters                               *)
(*                                                                         *)
(* A statement text is the sequence of the pieces the code concatenates.   *)

SelectStats == "SELECT (SELECT COUNT(*) FROM message) as total_messages, (SELECT COUNT(*) FROM chat) as total_chats, (SELECT COUNT(*) FROM handle) as total_contacts"
SelectMessageHandleChat == "SELECT m.rowid, m.text, m.date, m.is_from_me, m.cache_has_attachments, h.id as handle_id, c.display_name as chat_name, c.chat_identifier FROM message m LEFT JOIN handle h ON m.handle_id = h.rowid LEFT JOIN chat_message_join cmj ON m.rowid = cmj.message_id LEFT JOIN chat c ON cmj.chat_id = c.rowid"
SelectMessageHandle == "SELECT m.rowid, m.text, m.date, m.is_from_me, m.cache_has_attachments, h.id as handle_id FROM message m LEFT JOIN handle h ON m.handle_id = h.rowid"
SelectChat == "SELECT c.rowid, c.chat_identifier, c.display_name, c.service_name, c.style, (SELECT COUNT(*) ...) as message_count, (SELECT MAX(m.date) ...) as last_message_date, (SELECT m.text ... ORDER BY m.date DESC LIMIT 1) as last_message FROM chat c"
SelectChatNoPreview == "SELECT c.rowid, c.chat_identifier, c.display_name, c.service_name, c.style, (SELECT COUNT(*) ...) as message_count, (SELECT MAX(m.date) ...) as last_message_date FROM chat c"
SelectUnread == "SELECT COUNT(*) as count FROM message WHERE is_read = 0 AND is_from_me = 0"
SelectAttachment == "SELECT a.rowid, a.filename, a.mime_type, a.transfer_name, a.total_bytes, a.is_sticker, CASE ... END as is_audio_message FROM attachment a JOIN message_attachment_join maj ON a.rowid = maj.attachment_id WHERE maj.message_id = ?"
SelectDistinctMessageHandleChatAttachment == "SELECT DISTINCT m.rowid, m.text, m.date, m.is_from_me, m.cache_has_attachments, h.id as handle_id, c.display_name as chat_name, c.chat_identifier FROM message m LEFT JOIN handle h ON m.handle_id = h.rowid LEFT JOIN chat_message_join cmj ON m.rowid = cmj.message_id LEFT JOIN chat c ON cmj.chat_id = c.rowid JOIN message_attachment_join maj ON m.rowid = maj.message_id"
SelectMembers == "SELECT h.id FROM handle h JOIN chat_handle_join chj ON h.rowid = chj.handle_id JOIN chat c ON chj.chat_id = c.rowid WHERE c.chat_identifier = ?"

WhereDateAfter == "WHERE m.date > ?"
AndHasAttachments == "AND m.cache_has_attachments = 1"
AndContact == "AND (h.id LIKE ? OR h.id = ? OR h.id LIKE ?)"
AndTextLike == "AND m.text LIKE ?"
WhereNotGroup == "WHERE c.style != 43"
WhereChatContact == "WHERE c.chat_identifier LIKE ? OR c.chat_identifier = ? OR c.chat_identifier LIKE ?"
OrderDateDescLimit == "ORDER BY m.date DESC LIMIT ?"
OrderDateAscLimit == "ORDER BY m.date ASC LIMIT ?"
OrderLastDescLimit == "ORDER BY last_message_date DESC LIMIT ?"
OrderLastDescLimitOne == "ORDER BY last_message_date DESC LIMIT 1"

\* The three values pushed for a contact: `%${contact}%`, formattedContact,
\* `%${formattedContact}%`.
ContactParams_NormalizedFirst(contact) ==
    LET formattedContact == Str(formatPhoneNumber(contact.v))
    IN  <<formattedContact, Percent(contact), Percent(formattedContact)>>

ContactParams(contact) ==
    LET formattedContact == Str(formatPhoneNumber(contact.v))
    IN  <<Percent(contact), formattedContact, Percent(formattedContact)>>

\* As SearchClause, with the query put into the statement text.
SearchClause_Interpolated(query) ==
    [text |-> <<"AND m.text LIKE '%">> \o query.v \o <<"%'">>, params |-> << >>]

\* The text filter of searchMessages and the value bound to it: `%${query}%`.
SearchClause(query) == [text |-> <<AndTextLike>>, params |-> <<Percent(query)>>]

\* What each repository function hands to db.prepare(...) and to
\* .all(...) / .get(...).  Lookbacks are in tenths of an hour or of a day.

\* As getRecentMessages_statement, ordered ASC.
getRecentMessages_statement_Ascending(call) ==
    [text |-> <<SelectMessageHandleChat, WhereDateAfter>>
              \o (IF Truthy(call.contact) THEN <<AndContact>> ELSE << >>)
              \o <<OrderDateAscLimit>>,
     params |-> <<BigNum(hoursAgoToCocoaTimestamp(QueryNow, call.hours))>>
                \o (IF Truthy(call.contact) THEN ContactParams(call.contact) ELSE << >>)
                \o <<Num(call.limit)>>]

getRecentMessages_statement(call) ==
    [text |-> <<SelectMessageHandleChat, WhereDateAfter>>
              \o (IF Truthy(call.contact) THEN <<AndContact>> ELSE << >>)
              \o <<OrderDateDescLimit>>,
     params |-> <<BigNum(hoursAgoToCocoaTimestamp(QueryNow, call.hours))>>
                \o (IF Truthy(call.contact) THEN ContactParams(call.contact) ELSE << >>)
                \o <<Num(call.limit)>>]

\* As getConversation_statement, ordered DESC.
getConversation_statement_Descending(call) ==
    [text |-> <<SelectMessageHandle, WhereDateAfter, AndContact, OrderDateDescLimit>>,
     params |-> <<BigNum(daysAgoToCocoaTimestamp(QueryNow, call.days))>>
                \o ContactParams(call.contact) \o <<Num(call.limit)>>]

getConversation_statement(call) ==
    [text |-> <<SelectMessageHandle, WhereDateAfter, AndContact, OrderDateAscLimit>>,
     params |-> <<BigNum(daysAgoToCocoaTimestamp(QueryNow, call.days))>>
                \o ContactParams(call.contact) \o <<Num(call.limit)>>]

\* As searchMessages_statement, without the lower bound on the date.
searchMessages_statement_AnyDate(call) ==
    [text |-> <<SelectMessageHandleChat>> \o SearchClause(call.query).text
              \o <<OrderDateDescLimit>>,
     params |-> SearchClause(call.query).params \o <<Num(call.limit)>>]

searchMessages_statement(call) ==
    [text |-> <<SelectMessageHandleChat, WhereDateAfter>>
              \o SearchClause(call.query).text \o <<OrderDateDescLimit>>,
     params |-> <<BigNum(daysAgoToCocoaTimestamp(QueryNow, call.days))>>
                \o SearchClause(call.query).params \o <<Num(call.limit)>>]

listChats_statement(call) ==
    [text |-> <<SelectChat>>
              \o (IF ~call.includeGroupChats THEN <<WhereNotGroup>> ELSE << >>)
              \o <<OrderLastDescLimit>>,
     params |-> <<Num(call.limit)>>]

getRecentAttachments_statement(call) ==
    [text |-> <<SelectDistinctMessageHandleChatAttachment, WhereDateAfter, AndHasAttachments>>
              \o (IF Truthy(call.contact) THEN <<AndContact>> ELSE << >>)
              \o <<OrderDateDescLimit>>,
     params |-> <<BigNum(daysAgoToCocoaTimestamp(QueryNow, call.days))>>
                \o (IF Truthy(call.contact) THEN ContactParams(call.contact) ELSE << >>)
                \o <<Num(call.limit)>>]

findChatByContact_statement(call) ==
    [text |-> <<SelectChatNoPreview, WhereChatContact, OrderLastDescLimitOne>>,
     params |-> ContactParams(call.contact)]

Statement(op, call) ==
    CASE op = "getDatabaseStats" -> [text |-> <<SelectStats>>, params |-> << >>]
      [] op = "getRecentMessages" -> getRecentMessages_statement(call)
      [] op = "getConversation" -> getConversation_statement(call)
      [] op = "searchMessages" -> searchMessages_statement(call)
      [] op = "listChats" -> listChats_statement(call)
      [] op = "getUnreadCount" -> [text |-> <<SelectUnread>>, params |-> << >>]
      [] op = "getAttachmentsForMessage" ->
            [text |-> <<SelectAttachment>>, params |-> <<Num(call.messageId)>>]
      [] op = "getRecentAttachments" -> getRecentAttachments_statement(call)
      [] op = "getGroupChatMembers" ->
            [text |-> <<SelectMembers>>, params |-> <<call.chatIdentifier>>]
      [] op = "findChatByContact" -> findChatByContact_statement(call)

---------------------------------------------------------------------------
(* Running a statement                                                     *)

\* h.id LIKE ? OR h.id = ? OR h.id LIKE ? on identifier id, the three values
\* bound in the order of the placeholders.
MatchesContact_All(id, p) == Like(id, p[1]) /\ SqlEq(id, p[2]) /\ Like(id, p[3])

MatchesContact(id, p) == Like(id, p[1]) \/ SqlEq(id, p[2]) \/ Like(id, p[3])

\* The WHERE clause of text on one row; each piece takes its values from
\* the front of the parameters still unused.
RECURSIVE Selected(_, _, _)
Selected(text, params, row) ==
    IF text = << >> THEN TRUE
    ELSE LET piece == Head(text) IN
         CASE piece = WhereDateAfter ->
                /\ row.date.t = "big" /\ BigLess(params[1].v, row.date.v)
                /\ Selected(Tail(text), Tail(params), row)
           [] piece = AndHasAttachments ->
                /\ row.cache_has_attachments = 1
                /\ Selected(Tail(text), params, row)
           [] piece = AndContact ->
                /\ MatchesContact(row.handle_id, params)
                /\ Selected(Tail(text), SubSeq(params, 4, Len(params)), row)
           [] piece = AndTextLike ->
                /\ Like(row.text, params[1])
                /\ Selected(Tail(text), Tail(params), row)
           [] piece = WhereNotGroup ->
                /\ row.style # 43
                /\ Selected(Tail(text), params, row)
           [] piece = WhereChatContact ->
                /\ MatchesContact(row.chat_identifier, params)
                /\ Selected(Tail(text), SubSeq(params, 4, Len(params)), row)
           [] OTHER -> Selected(Tail(text), params, row)

\* As Sources, with the DISTINCT of getRecentAttachments left out.
Sources_NoDistinct(store, text) ==
    CASE text[1] = SelectMessageHandle -> {FromMessageHandle(store)}
      [] text[1] = SelectMessageHandleChat -> {FromMessageHandleChat(store)}
      [] text[1] = SelectDistinctMessageHandleChatAttachment ->
            {FromMessageHandleChatAttachment(store)}
      [] text[1] = SelectChat -> FromChat(store)
      [] text[1] = SelectChatNoPreview ->
            {{ChatRow(store, c, Null) : c \in DOMAIN store.chat}}

\* The sets of rows the FROM clause of text can give.
Sources(store, text) ==
    CASE text[1] = SelectMessageHandle -> {FromMessageHandle(store)}
      [] text[1] = SelectMessageHandleChat -> {FromMessageHandleChat(store)}
      [] text[1] = SelectDistinctMessageHandleChatAttachment ->
            \* DISTINCT: rows equal in every selected column are one row.
            {{[r EXCEPT !.cmj = 0, !.maj = 0] : r \in FromMessageHandleChatAttachment(store)}}
      [] text[1] = SelectChat -> FromChat(store)
      [] text[1] = SelectChatNoPreview ->
            {{ChatRow(store, c, Null) : c \in DOMAIN store.chat}}

\* The column a statement orders by.
OrderKey(text, row) ==
    IF text[Len(text)] \in {OrderDateDescLimit, OrderDateAscLimit}
    THEN row.date ELSE row.last_message_date

Descending(text) == text[Len(text)] # OrderDateAscLimit

\* LIMIT ? takes the last value bound; a negative LIMIT is no limit.
LimitOf(text, params, n) ==
    LET limit == IF text[Len(text)] = OrderLastDescLimitOne THEN 1
                 ELSE params[Len(params)].v
    IN  IF limit < 0 \/ limit > n THEN n ELSE limit

\* Every order of the rows S the ORDER BY allows: rows with equal keys come
\* in any order.
RECURSIVE Orders(_, _)
Orders(S, text) ==
    IF S = {} THEN {<< >>}
    ELSE LET first == {x \in S : \A y \in S :
                          IF Descending(text)
                          THEN ~KeyLess(OrderKey(text, x), OrderKey(text, y))
                          ELSE ~KeyLess(OrderKey(text, y), OrderKey(text, x))}
         IN  UNION {{<<x>> \o rest : rest \in Orders(S \ {x}, text)} : x \in first}

\* As All, with the LIMIT taken before the ORDER BY: any rows up to the
\* limit, then put in order.
All_LimitBeforeOrder(store, text, params) ==
    UNION { LET S == {r \in rows : Selected(text, params, r)}
                n == LimitOf(text, params, Cardinality(S))
            IN  UNION {Orders(T, text) : T \in {U \in SUBSET S : Cardinality(U) = n}}
          : rows \in Sources(store, text) }

\* db.prepare(text).all(...params): the row sequences the driver may return.
All(store, text, params) ==
    UNION { LET S == {r \in rows : Selected(text, params, r)}
            IN  {SubSeq(o, 1, LimitOf(text, params, Cardinality(S))) : o \in Orders(S, text)}
          : rows \in Sources(store, text) }

---------------------------------------------------------------------------
(* Row mapping                                                             *)
(*                                                                         *)
(* A fixed text of the code is a string of one piece.                      *)

Label(text) == Str(<<text>>)

\* As getRecentMessages_map, with text: msg.text.
getRecentMessages_map_NoPlaceholder(msg) ==
    [id |-> msg.rowid,
     text |-> msg.text,
     date |-> formatDate(cocoaTimestampToDate(msg.date.v)),
     isFromMe |-> msg.is_from_me = 1,
     hasAttachments |-> msg.cache_has_attachments = 1,
     contact |-> OrElse(msg.handle_id, Label("Unknown")),
     chatName |-> OrElse(OrElse(msg.chat_name, msg.chat_identifier), Label("Direct Message"))]

\* getRecentMessages: messages.map((msg) => ({...}))
getRecentMessages_map(msg) ==
    [id |-> msg.rowid,
     text |-> OrElse(msg.text, Label("(attachment or empty)")),
     date |-> formatDate(cocoaTimestampToDate(msg.date.v)),
     isFromMe |-> msg.is_from_me = 1,
     hasAttachments |-> msg.cache_has_attachments = 1,
     contact |-> OrElse(msg.handle_id, Label("Unknown")),
     chatName |-> OrElse(OrElse(msg.chat_name, msg.chat_identifier), Label("Direct Message"))]

\* getConversation: no chat label; sender instead of contact.
getConversation_map(msg) ==
    [id |-> msg.rowid,
     text |-> OrElse(msg.text, Label("(attachment or empty)")),
     date |-> formatDate(cocoaTimestampToDate(msg.date.v)),
     isFromMe |-> msg.is_from_me = 1,
     hasAttachments |-> msg.cache_has_attachments = 1,
     sender |-> IF msg.is_from_me = 1 THEN Label("You")
                ELSE OrElse(msg.handle_id, Label("Them"))]

\* searchMessages: text: msg.text || ""
searchMessages_map(msg) ==
    [id |-> msg.rowid,
     text |-> OrElse(msg.text, Str(<< >>)),
     date |-> formatDate(cocoaTimestampToDate(msg.date.v)),
     isFromMe |-> msg.is_from_me = 1,
     hasAttachments |-> msg.cache_has_attachments = 1,
     contact |-> OrElse(msg.handle_id, Label("Unknown")),
     chatName |-> OrElse(OrElse(msg.chat_name, msg.chat_identifier), Label("Direct Message"))]

\* getRecentAttachments: the message of each pair; hasAttachments: true.
getRecentAttachments_map(msg) ==
    [id |-> msg.rowid,
     text |-> OrElse(msg.text, Label("(attachment)")),
     date |-> formatDate(cocoaTimestampToDate(msg.date.v)),
     isFromMe |-> msg.is_from_me = 1,
     hasAttachments |-> TRUE,
     contact |-> OrElse(msg.handle_id, Label("Unknown")),
     chatName |-> OrElse(OrElse(msg.chat_name, msg.chat_identifier), Label("Direct Message"))]

\* As listChats_map, with style >= 43 for a group chat.
listChats_map_AtLeast43(chat) ==
    [id |-> chat.rowid,
     identifier |-> chat.chat_identifier,
     displayName |-> OrElse(chat.display_name, chat.chat_identifier),
     service |-> chat.service_name,
     isGroupChat |-> chat.style >= 43,
     messageCount |-> chat.message_count,
     lastMessageDate |-> IF Truthy(chat.last_message_date)
                         THEN formatDate(cocoaTimestampToDate(chat.last_message_date.v))
                         ELSE Label("Unknown"),
     lastMessage |-> IF Truthy(chat.last_message)
                     THEN Str(truncate(chat.last_message.v, 50))
                     ELSE Label("(no messages)")]

\* listChats: chats.map((chat) => ({...}))
listChats_map(chat) ==
    [id |-> chat.rowid,
     identifier |-> chat.chat_identifier,
     displayName |-> OrElse(chat.display_name, chat.chat_identifier),
     service |-> chat.service_name,
     isGroupChat |-> chat.style = 43,
     messageCount |-> chat.message_count,
     lastMessageDate |-> IF Truthy(chat.last_message_date)
                         THEN formatDate(cocoaTimestampToDate(chat.last_message_date.v))
                         ELSE Label("Unknown"),
     lastMessage |-> IF Truthy(chat.last_message)
                     THEN Str(truncate(chat.last_message.v, 50))
                     ELSE Label("(no messages)")]

\* findChatByContact: the same without lastMessage.
findChatByContact_map(chat) ==
    [id |-> chat.rowid,
     identifier |-> chat.chat_identifier,
     displayName |-> OrElse(chat.display_name, chat.chat_identifier),
     service |-> chat.service_name,
     isGroupChat |-> chat.style = 43,
     messageCount |-> chat.message_count,
     lastMessageDate |-> IF Truthy(chat.last_message_date)
                         THEN formatDate(cocoaTimestampToDate(chat.last_message_date.v))
                         ELSE Label("Unknown")]

---------------------------------------------------------------------------
(* Calling the repository functions on a store                             *)

\* Largest LIMIT a call binds.
MaxLimit == 3

\* Limits as normalizeLimit gives them: whole numbers from 0.
LimitInputs == 0..MaxLimit

\* Lookbacks in tenths of an hour (24 h, 48 h) and of a day (1 day, 7 days).
LookbackHours == {240, 480}
LookbackDays == {10, 70}

\* Contacts: the number with dashes and as bare digits, a part of the email
\* address, and one with a LIKE wildcard.
Contacts == {Str(DashedNumber), Str(TenDigits), Str(<<"a", "@", "b">>), Str(<<"_", "@">>)}

\* An optional contact may also be left out or empty.
OptionalContacts == Contacts \cup {Undefined, Str(<< >>)}

\* Search queries: plain, with a LIKE wildcard, in another case.
Queries == {Str(<<"b">>), Str(<<"a", "_", "c">>), Str(<<"A", "B">>), Str(<<"x", "c">>)}

QueryOps == {"getRecentMessages", "getConversation", "searchMessages", "listChats",
             "getRecentAttachments", "findChatByContact"}

Calls(op) ==
    CASE op = "getRecentMessages" ->
            [hours : LookbackHours, contact : OptionalContacts, limit : LimitInputs]
      [] op = "getConversation" ->
            [contact : Contacts, days : LookbackDays, limit : LimitInputs]
      [] op = "searchMessages" ->
            [query : Queries, days : LookbackDays, limit : LimitInputs]
      [] op = "listChats" ->
            [limit : LimitInputs, includeGroupChats : BOOLEAN]
      [] op = "getRecentAttachments" ->
            [days : LookbackDays, contact : OptionalContacts, limit : LimitInputs]
      [] op = "findChatByContact" ->
            [contact : Contacts]

QueryInit ==
    /\ ServerInit
    /\ fn \in QueryOps
    /\ arg \in MessageTables \X Calls(fn)
    /\ out = << >>

\* The statement a call prepares, the rows the driver returned, and the
\* value the function returns.
Returned(stmt, rows, value) == <<[statement |-> stmt, rows |-> rows, result |-> value]>>

MapRows(rows, Map(_)) == [i \in DOMAIN rows |-> Map(rows[i])]

Call_getRecentMessages ==
    /\ fn = "getRecentMessages" /\ out = << >>
    /\ LET stmt == Statement(fn, arg[2]) IN
       \E rows \in All(Store(arg[1]), stmt.text, stmt.params) :
           out' = Returned(stmt, rows, MapRows(rows, getRecentMessages_map))
    /\ UNCHANGED <<serverVars, fn, arg>>

Call_getConversation ==
    /\ fn = "getConversation" /\ out = << >>
    /\ LET stmt == Statement(fn, arg[2]) IN
       \E rows \in All(Store(arg[1]), stmt.text, stmt.params) :
           out' = Returned(stmt, rows, MapRows(rows, getConversation_map))
    /\ UNCHANGED <<serverVars, fn, arg>>

Call_searchMessages ==
    /\ fn = "searchMessages" /\ out = << >>
    /\ LET stmt == Statement(fn, arg[2]) IN
       \E rows \in All(Store(arg[1]), stmt.text, stmt.params) :
           out' = Returned(stmt, rows, MapRows(rows, searchMessages_map))
    /\ UNCHANGED <<serverVars, fn, arg>>

Call_listChats ==
    /\ fn = "listChats" /\ out = << >>
    /\ LET stmt == Statement(fn, arg[2]) IN
       \E rows \in All(Store(arg[1]), stmt.text, stmt.params) :
           out' = Returned(stmt, rows, MapRows(rows, listChats_map))
    /\ UNCHANGED <<serverVars, fn, arg>>

\* Each message is paired with the attachments getAttachmentsForMessage
\* finds for its rowid; the order of an attachment list is left out.
Call_getRecentAttachments ==
    /\ fn = "getRecentAttachments" /\ out = << >>
    /\ LET stmt == Statement(fn, arg[2])
           store == Store(arg[1])
           pair(msg) == [message |-> getRecentAttachments_map(msg),
                         attachments |-> {j[2] : j \in {k \in store.message_attachment_join :
                                                            k[1] = msg.rowid}}]
       IN  \E rows \in All(store, stmt.text, stmt.params) :
               out' = Returned(stmt, rows, MapRows(rows, pair))
    /\ UNCHANGED <<serverVars, fn, arg>>

\* .get(...): the first row or none; if (!chat) return null.
Call_findChatByContact ==
    /\ fn = "findChatByContact" /\ out = << >>
    /\ LET stmt == Statement(fn, arg[2]) IN
       \E rows \in All(Store(arg[1]), stmt.text, stmt.params) :
           out' = Returned(stmt, rows,
                           IF rows = << >> THEN Null ELSE findChatByContact_map(rows[1]))
    /\ UNCHANGED <<serverVars, fn, arg>>

QueryNext ==
    \/ Call_getRecentMessages
    \/ Call_getConversation
    \/ Call_searchMessages
    \/ Call_listChats
    \/ Call_getRecentAttachments
    \/ Call_findChatByContact

QuerySpec == QueryInit /\ [][QueryNext]_vars

---------------------------------------------------------------------------
(* Properties of the queries                                               *)

Range(seq) == {seq[i] : i \in DOMAIN seq}

ContactOps == {"getRecentMessages", "getConversation", "getRecentAttachments",
               "findChatByContact"}

\* The call of the state is one that filters by a contact, and has returned.
ContactCallDone == fn \in ContactOps /\ out # << >> /\ Truthy(arg[2].contact)

\* The lower bound on m.date of the call of the state.
Cutoff ==
    IF fn = "getRecentMessages" THEN hoursAgoToCocoaTimestamp(QueryNow, arg[2].hours)
    ELSE daysAgoToCocoaTimestamp(QueryNow, arg[2].days)

NewerThanCutoff(r) == BigLess(Cutoff, r.date.v)

\* The rows the contact filter of the call chooses from: every row of the
\* FROM clause that meets the other conditions of the statement.
Candidates ==
    LET store == Store(arg[1]) IN
    CASE fn = "getRecentMessages" ->
            {r \in FromMessageHandleChat(store) : NewerThanCutoff(r)}
      [] fn = "getConversation" ->
            {r \in FromMessageHandle(store) : NewerThanCutoff(r)}
      [] fn = "getRecentAttachments" ->
            {[r EXCEPT !.cmj = 0, !.maj = 0] :
                r \in {q \in FromMessageHandleChatAttachment(store) :
                          NewerThanCutoff(q) /\ q.cache_has_attachments = 1}}
      [] fn = "findChatByContact" ->
            {ChatRow(store, c, Null) : c \in DOMAIN store.chat}

\* The identifier the contact filter looks at.
Identifier(r) == IF fn = "findChatByContact" THEN r.chat_identifier ELSE r.handle_id

\* One of the three predicates holds of identifier id for contact.
ThreePatternMatch(id, contact) ==
    LET normalized == Str(formatPhoneNumber(contact.v)) IN
    \/ Like(id, Percent(contact))
    \/ SqlEq(id, normalized)
    \/ Like(id, Percent(normalized))

\* The LIMIT of the call of the state.
CallLimit == IF fn = "findChatByContact" THEN 1 ELSE arg[2].limit

(* C13: in getRecentMessages and getRecentAttachments with a contact, in   *)
(* getConversation and in findChatByContact, the three values bound for    *)
(* the contact are, in this order, %original%, normalized, %normalized%,   *)
(* and a candidate row is chosen iff its identifier satisfies the LIKE     *)
(* pattern on the original, equals the normalized form, or satisfies the   *)
(* LIKE pattern on the normalized form: only such rows are returned, and   *)
(* as many of them as the limit allows.                                    *)
C13_ThreePatternContactMatch ==
    ContactCallDone =>
        LET contact == arg[2].contact
            normalized == Str(formatPhoneNumber(contact.v))
            params == out[1].statement.params
            bound == IF fn = "findChatByContact" THEN params ELSE SubSeq(params, 2, 4)
            matching == {r \in Candidates : ThreePatternMatch(Identifier(r), contact)}
        IN  /\ bound = <<Percent(contact), normalized, Percent(normalized)>>
            /\ Range(out[1].rows) \subseteq matching
            /\ Len(out[1].rows) =
                   IF Cardinality(matching) < CallLimit THEN Cardinality(matching) ELSE CallLimit

\* A contact written with dashes found a message by the normalized form
\* alone, and left out a candidate whose handle satisfies none of the three.
C13_Witness ==
    /\ ContactCallDone /\ fn = "getConversation"
    /\ arg[2].contact = Str(DashedNumber)
    /\ \E r \in Range(out[1].rows) :
          /\ ~Like(r.handle_id, Percent(arg[2].contact))
          /\ r.handle_id = Str(E164Number)
    /\ \E r \in Candidates : r \notin Range(out[1].rows) /\ r.handle_id = Str(TenDigits)
    /\ Len(out[1].rows) < arg[2].limit

\* The rows of the call of the state that meet every condition of its
\* statement: the candidates, narrowed by the contact when one is given.
Qualifying ==
    IF Truthy(arg[2].contact)
    THEN {r \in Candidates : ThreePatternMatch(Identifier(r), arg[2].contact)}
    ELSE Candidates

\* rows holds n rows, each once, all from S, no row of S left out being
\* later (earlier, if oldest is true) than a row returned, and in the order
\* of the dates.
IsDateCut(rows, S, n, oldest) ==
    /\ Len(rows) = n
    /\ Range(rows) \subseteq S
    /\ \A i, j \in DOMAIN rows : i < j =>
          /\ rows[i] # rows[j]
          /\ IF oldest THEN ~BigLess(rows[j].date.v, rows[i].date.v)
                       ELSE ~BigLess(rows[i].date.v, rows[j].date.v)
    /\ \A r \in S \ Range(rows) : \A x \in Range(rows) :
          IF oldest THEN ~BigLess(r.date.v, x.date.v) ELSE ~BigLess(x.date.v, r.date.v)

AtMost(limit, n) == IF n < limit THEN n ELSE limit

(* C14 as stated: getRecentMessages returns only messages strictly newer   *)
(* than hoursAgo(hours) that match the contact if one is given, newest     *)
(* first, and when N messages qualify it returns exactly min(limit, N)     *)
(* entities, each with its converted date string.                          *)
C14_RecentMessagesPerMessage ==
    fn = "getRecentMessages" /\ out # << >> =>
        LET rows == out[1].rows
            N == Cardinality({r.rowid : r \in Qualifying})
        IN  /\ Range(rows) \subseteq Qualifying
            /\ Len(out[1].result) = AtMost(arg[2].limit, N)

(* C14 amended: a message qualifies once for every chat it is joined to    *)
(* (once if it is in no chat).  getRecentMessages returns only such rows   *)
(* of messages strictly newer than hoursAgo(hours) that match the contact  *)
(* if one is given, newest first; when N rows qualify it returns exactly   *)
(* min(limit, N) entities, the newest ones, each with the id of its row    *)
(* and the date string of the row's converted date.                        *)
C14_RecentMessagesPerJoinedRow ==
    fn = "getRecentMessages" /\ out # << >> =>
        LET rows == out[1].rows
            entities == out[1].result
        IN  /\ IsDateCut(rows, Qualifying, AtMost(arg[2].limit, Cardinality(Qualifying)), FALSE)
            /\ \A r \in Range(rows) : BigLess(hoursAgoToCocoaTimestamp(QueryNow, arg[2].hours), r.date.v)
            /\ Len(entities) = Len(rows)
            /\ \A i \in DOMAIN rows :
                  /\ entities[i].id = rows[i].rowid
                  /\ entities[i].date = formatDate(cocoaTimestampToDate(rows[i].date.v))

\* Three rows qualified, two of them of one message joined to two chats;
\* the limit of 2 returned the newest message and one row of the other.
C14_Witness ==
    /\ fn = "getRecentMessages" /\ out # << >>
    /\ arg[2].hours = 480 /\ arg[2].limit = 2
    /\ Cardinality(Qualifying) = 3
    /\ Len(out[1].result) = 2
    /\ out[1].result[1].id # out[1].result[2].id
    /\ BigLess(out[1].rows[2].date.v, out[1].rows[1].date.v)

\* A message joined to two chats was returned twice.
C14_SameMessageTwice ==
    /\ fn = "getRecentMessages" /\ out # << >>
    /\ Len(arg[1]) = 1
    /\ Len(out[1].result) = 2
    /\ out[1].result[1].id = out[1].result[2].id

(* C15: getConversation returns only messages newer than daysAgo(days)     *)
(* whose handle matches the contact, oldest first (the dates never         *)
(* decrease along the result), and never more than limit of them.          *)
C15_ConversationOldestFirst ==
    fn = "getConversation" /\ out # << >> =>
        LET rows == out[1].rows
            entities == out[1].result
        IN  /\ \A r \in Range(rows) :
                  /\ BigLess(daysAgoToCocoaTimestamp(QueryNow, arg[2].days), r.date.v)
                  /\ ThreePatternMatch(r.handle_id, arg[2].contact)
                  /\ r \in FromMessageHandle(Store(arg[1]))
            /\ \A i, j \in DOMAIN rows : i < j => ~BigLess(rows[j].date.v, rows[i].date.v)
            /\ Len(entities) <= arg[2].limit
            /\ Len(entities) = Len(rows)
            /\ \A i \in DOMAIN rows : entities[i].id = rows[i].rowid

\* Two messages of the contact, stored newest first, came back oldest first.
C15_Witness ==
    /\ fn = "getConversation" /\ out # << >>
    /\ Len(arg[1]) = 2 /\ arg[1][1].age < arg[1][2].age
    /\ Len(out[1].result) = 2
    /\ out[1].result[1].id = 2 /\ out[1].result[2].id = 1
    /\ BigLess(out[1].rows[1].date.v, out[1].rows[2].date.v)

\* sub occurs in s when ASCII letters are compared without regard to case.
ContainsFolded(s, sub) ==
    \E i \in 0..(Len(s) - Len(sub)) : \A k \in 1..Len(sub) : Fold(s[i + k]) = Fold(sub[k])

\* The joined rows of messages newer than daysAgo(days): what the text
\* filter of searchMessages chooses from.
SearchCandidates ==
    {r \in FromMessageHandleChat(Store(arg[1])) :
        BigLess(daysAgoToCocoaTimestamp(QueryNow, arg[2].days), r.date.v)}

(* C16 as stated: every message searchMessages returns is newer than       *)
(* daysAgo(days) and has a text that contains the query as a literal       *)
(* substring.                                                              *)
C16_SearchLiteralSubstring ==
    fn = "searchMessages" /\ out # << >> =>
        \A r \in Range(out[1].rows) :
            /\ r \in SearchCandidates
            /\ r.text.t = "str" /\ Contains(r.text.v, arg[2].query.v)

(* C16 amended: searchMessages returns, newest first and as many as the    *)
(* limit allows, the rows of messages newer than daysAgo(days) whose text  *)
(* satisfies the LIKE pattern %query%, in which "%" and "_" of the query   *)
(* are wildcards and ASCII letters match in either case.  Every newer      *)
(* message whose text contains the query literally satisfies the pattern,  *)
(* and when the query has no "%" or "_" every returned text contains it    *)
(* up to the case of ASCII letters.                                        *)
C16_SearchLikePattern ==
    fn = "searchMessages" /\ out # << >> =>
        LET query == arg[2].query
            matching == {r \in SearchCandidates : Like(r.text, Percent(query))}
        IN  /\ IsDateCut(out[1].rows, matching,
                         AtMost(arg[2].limit, Cardinality(matching)), FALSE)
            /\ Len(out[1].result) = Len(out[1].rows)
            /\ \A r \in SearchCandidates :
                  r.text.t = "str" /\ Contains(r.text.v, query.v) => r \in matching
            /\ (\A i \in DOMAIN query.v : query.v[i] \notin {"%", "_"}) =>
                  \A r \in Range(out[1].rows) : ContainsFolded(r.text.v, query.v)

\* The query a_c returned a message whose text does not contain "a_c".
C16_Witness ==
    /\ fn = "searchMessages" /\ out # << >>
    /\ arg[2].query = Str(<<"a", "_", "c">>)
    /\ \E i \in DOMAIN out[1].result :
          /\ out[1].result[i].text = Str(<<"A", "x", "C">>)
          /\ ~Contains(out[1].rows[i].text.v, arg[2].query.v)

C17_GroupChatListed ==
    /\ fn = "listChats" /\ out # << >>
    /\ arg[2].includeGroupChats
    /\ \E i \in DOMAIN out[1].result :
          out[1].result[i].id = 2 /\ out[1].result[i].isGroupChat

---------------------------------------------------------------------------
(* Preparing the statements of two calls of one function                   *)

AllRepoOps == QueryOps \cup {"getDatabaseStats", "getUnreadCount",
                            "getAttachmentsForMessage", "getGroupChatMembers"}

\* The arguments of every repository function; << >> for none.
AllCalls(op) ==
    CASE op \in QueryOps -> Calls(op)
      [] op = "getAttachmentsForMessage" -> [messageId : 1..MaxMessages]
      [] op = "getGroupChatMembers" -> [chatIdentifier : Contacts]
      [] OTHER -> {<< >>}

PrepareInit ==
    /\ ServerInit
    /\ fn = "prepare"
    /\ arg \in UNION {{<<op, a, b>> : a \in AllCalls(op), b \in AllCalls(op)} : op \in AllRepoOps}
    /\ out = << >>

\* Both calls build their statement.
Prepare ==
    /\ fn = "prepare" /\ out = << >>
    /\ out' = <<Statement(arg[1], arg[2]), Statement(arg[1], arg[3])>>
    /\ UNCHANGED <<serverVars, fn, arg>>

PrepareNext == Prepare

PrepareSpec == PrepareInit /\ [][PrepareNext]_vars

\* The optional filters of a call that are present.
FiltersPresent(op, call) ==
    CASE op \in {"getRecentMessages", "getRecentAttachments"} -> <<Truthy(call.contact)>>
      [] op = "listChats" -> <<call.includeGroupChats>>
      [] OTHER -> << >>

\* The pieces of statement text that stand in the code.
StatementPieces ==
    {SelectStats, SelectMessageHandleChat, SelectMessageHandle, SelectChat,
     SelectChatNoPreview, SelectUnread, SelectAttachment,
     SelectDistinctMessageHandleChatAttachment, SelectMembers, WhereDateAfter,
     AndHasAttachments, AndContact, AndTextLike, WhereNotGroup, WhereChatContact,
     OrderDateDescLimit, OrderDateAscLimit, OrderLastDescLimit, OrderLastDescLimitOne}

(* C18: two calls of one repository function with the same optional        *)
(* filters present (contact given or not, includeGroupChats or not)        *)
(* prepare the same statement text, whatever their contact, query, chat    *)
(* identifier, message id, limit or lookback; the text is made only of     *)
(* pieces written in the code, and the calls bind equally many values.     *)
C18_StatementTextFixed ==
    fn = "prepare" /\ out # << >> =>
        /\ \A k \in 1..2 : Range(out[k].text) \subseteq StatementPieces
        /\ FiltersPresent(arg[1], arg[2]) = FiltersPresent(arg[1], arg[3]) =>
              /\ out[1].text = out[2].text
              /\ Len(out[1].params) = Len(out[2].params)

\* Two searches for different texts, limits and lookbacks prepared one text
\* and bound different values.
C18_Witness ==
    /\ fn = "prepare" /\ out # << >>
    /\ arg[1] = "searchMessages"
    /\ arg[2].query # arg[3].query /\ arg[2].limit # arg[3].limit /\ arg[2].days # arg[3].days
    /\ out[1].text = out[2].text
    /\ \A i \in 1..3 : out[1].params[i] # out[2].params[i]

---------------------------------------------------------------------------
(* The store is only read                                                  *)

(* C19: every connection, of a repository function or of the access check, *)
(* is opened read-only, and no step of any request changes the contents    *)
(* of the message store.                                                   *)
C19_StoreNeverWritten ==
    /\ [](\A o \in connOptions : o.readonly)
    /\ [][storeWrites' = storeWrites]_vars

\* A request was answered after the probe and a repository function each
\* opened a connection and the statement ran; nothing was written.
C19_Witness ==
    /\ hpc = "done" /\ result.kind = "ok"
    /\ \E i \in DOMAIN trace : trace[i] = <<"open", "probe", "ok">>
    /\ EventsWhere(IsRepoOpen) # {}
    /\ \E i \in DOMAIN trace : trace[i][1] = "statement" /\ trace[i][3] = "ok"
    /\ connOptions = {[readonly |-> TRUE]}
    /\ storeWrites = 0

---------------------------------------------------------------------------
(* Mapping raw rows                                                        *)

\* Raw message rows (RawMessageRow): every optional column absent, empty
\* or filled; a nanosecond date and a seconds date.
RawMessageRows ==
    [rowid : {7},
     text : {Null, Str(<< >>), Str(<<"a", "b", "c">>)},
     date : {BigNum(DateOf([age |-> 10])), BigNum(<<0, 500000000>>)},
     is_from_me : {0, 1},
     cache_has_attachments : {0, 1},
     handle_id : {Null, Str(E164Number)},
     chat_name : {Null, Str(<< >>), Str(<<"T", "e", "a", "m">>)},
     chat_identifier : {Null, Str(<<"c", "h", "a", "t", "1">>)}]

\* Raw chat rows (RawChatRow); the preview absent, short, or longer than
\* the 50 characters listChats keeps.
RawChatRows ==
    [rowid : {7},
     chat_identifier : {Str(<<"c", "h", "a", "t", "1">>)},
     display_name : {Null, Str(<< >>), Str(<<"T", "e", "a", "m">>)},
     service_name : {Str(<<"i">>)},
     style : {43, 45},
     message_count : {0, 2},
     last_message_date : {Null, BigNum(DateOf([age |-> 10]))},
     last_message : {Null, Str(<<"a", "b", "c">>), Str([i \in 1..51 |-> "a"])}]

MessageMappers == {"getRecentMessages_map", "getConversation_map", "searchMessages_map",
                   "getRecentAttachments_map"}
ChatMappers == {"listChats_map", "findChatByContact_map"}

MapInit ==
    /\ ServerInit
    /\ \/ fn \in MessageMappers /\ arg \in {<<r>> : r \in RawMessageRows}
       \/ fn \in ChatMappers /\ arg \in {<<r>> : r \in RawChatRows}
    /\ out = << >>

Apply_getRecentMessages_map ==
    /\ fn = "getRecentMessages_map" /\ out = << >>
    /\ out' = <<getRecentMessages_map(arg[1])>>
    /\ UNCHANGED <<serverVars, fn, arg>>

Apply_getConversation_map ==
    /\ fn = "getConversation_map" /\ out = << >>
    /\ out' = <<getConversation_map(arg[1])>>
    /\ UNCHANGED <<serverVars, fn, arg>>

Apply_searchMessages_map ==
    /\ fn = "searchMessages_map" /\ out = << >>
    /\ out' = <<searchMessages_map(arg[1])>>
    /\ UNCHANGED <<serverVars, fn, arg>>

Apply_getRecentAttachments_map ==
    /\ fn = "getRecentAttachments_map" /\ out = << >>
    /\ out' = <<getRecentAttachments_map(arg[1])>>
    /\ UNCHANGED <<serverVars, fn, arg>>

Apply_listChats_map ==
    /\ fn = "listChats_map" /\ out = << >>
    /\ out' = <<listChats_map(arg[1])>>
    /\ UNCHANGED <<serverVars, fn, arg>>

Apply_findChatByContact_map ==
    /\ fn = "findChatByContact_map" /\ out = << >>
    /\ out' = <<findChatByContact_map(arg[1])>>
    /\ UNCHANGED <<serverVars, fn, arg>>

MapNext ==
    \/ Apply_getRecentMessages_map
    \/ Apply_getConversation_map
    \/ Apply_searchMessages_map
    \/ Apply_getRecentAttachments_map
    \/ Apply_listChats_map
    \/ Apply_findChatByContact_map

MapSpec == MapInit /\ [][MapNext]_vars

\* A column is absent; an empty string is read as absent too.
Absent(x) == x = Null \/ x = Str(<< >>)

\* The field of a message entity that names the other party.
HandleField(e) == IF "contact" \in DOMAIN e THEN e.contact ELSE e.sender

(* C20 as stated: every message row maps an absent text to a placeholder   *)
(* string, an absent handle to "Unknown", the chat label to the display    *)
(* name if present, else the chat identifier, else "Direct Message", and   *)
(* is_from_me / cache_has_attachments to true iff the stored value is 1;   *)
(* every chat row maps an absent display name to the identifier and an     *)
(* absent last-message time to "Unknown".                                  *)
C20_RowMappingAsStated ==
    out # << >> =>
        LET row == arg[1]
            e == out[1]
        IN  /\ fn \in MessageMappers =>
                /\ e.text.t = "str"
                /\ Absent(row.handle_id) => HandleField(e) = Label("Unknown")
                /\ "chatName" \in DOMAIN e
                /\ e.chatName = IF ~Absent(row.chat_name) THEN row.chat_name
                                ELSE IF ~Absent(row.chat_identifier) THEN row.chat_identifier
                                ELSE Label("Direct Message")
                /\ e.isFromMe = (row.is_from_me = 1)
                /\ e.hasAttachments = (row.cache_has_attachments = 1)
            /\ fn \in ChatMappers =>
                /\ Absent(row.display_name) => e.displayName = row.chat_identifier
                /\ Absent(row.last_message_date) => e.lastMessageDate = Label("Unknown")

(* C20 amended: mapping never fails on an absent optional field, and an    *)
(* empty string counts as absent.  Every message entity has the row's id,  *)
(* a text that is a string (the row's text, or "(attachment or empty)",    *)
(* "" for searchMessages, "(attachment)" for getRecentAttachments) and     *)
(* isFromMe true iff is_from_me is 1.  The entities of getRecentMessages,  *)
(* searchMessages and getRecentAttachments have contact = the handle or    *)
(* "Unknown", and chatName = the display name, else the chat identifier,   *)
(* else "Direct Message"; those of getConversation have no chat label and  *)
(* sender = "You" if is_from_me is 1, else the handle, else "Them".        *)
(* hasAttachments is true iff cache_has_attachments is 1, except in        *)
(* getRecentAttachments, where it is always true.  A chat entity has       *)
(* displayName = the display name, else the identifier, and                *)
(* lastMessageDate = "Unknown" when the chat has no last-message time.     *)
C20_RowMappingTotal ==
    out # << >> =>
        LET row == arg[1]
            e == out[1]
            filled(x) == x.t = "str" /\ x.v # << >>
        IN  /\ e.id = row.rowid
            /\ fn \in MessageMappers =>
                /\ e.text = IF filled(row.text) THEN row.text
                            ELSE CASE fn = "searchMessages_map" -> Str(<< >>)
                                   [] fn = "getRecentAttachments_map" -> Label("(attachment)")
                                   [] OTHER -> Label("(attachment or empty)")
                /\ e.isFromMe = (row.is_from_me = 1)
                /\ e.hasAttachments =
                      (fn = "getRecentAttachments_map" \/ row.cache_has_attachments = 1)
                /\ e.date = formatDate(cocoaTimestampToDate(row.date.v))
            /\ fn \in MessageMappers \ {"getConversation_map"} =>
                /\ e.contact = IF filled(row.handle_id) THEN row.handle_id ELSE Label("Unknown")
                /\ e.chatName = IF filled(row.chat_name) THEN row.chat_name
                                ELSE IF filled(row.chat_identifier) THEN row.chat_identifier
                                ELSE Label("Direct Message")
            /\ fn = "getConversation_map" =>
                /\ "chatName" \notin DOMAIN e
                /\ e.sender = IF row.is_from_me = 1 THEN Label("You")
                              ELSE IF filled(row.handle_id) THEN row.handle_id
                              ELSE Label("Them")
            /\ fn \in ChatMappers =>
                /\ e.displayName = IF filled(row.display_name) THEN row.display_name
                                   ELSE row.chat_identifier
                /\ Absent(row.last_message_date) => e.lastMessageDate = Label("Unknown")
                /\ ~Absent(row.last_message_date) =>
                      e.lastMessageDate = formatDate(cocoaTimestampToDate(row.last_message_date.v))

\* A row without text, handle and chat became a full message entity.
C20_Witness ==
    /\ fn = "getRecentMessages_map" /\ out # << >>
    /\ Absent(arg[1].text) /\ Absent(arg[1].handle_id)
    /\ Absent(arg[1].chat_name) /\ Absent(arg[1].chat_identifier)
    /\ arg[1].is_from_me = 1
    /\ out[1].text = Label("(attachment or empty)")
    /\ out[1].contact = Label("Unknown")
    /\ out[1].chatName = Label("Direct Message")
    /\ out[1].isFromMe

\* A conversation row without handle was labelled "Them".
C20_ConversationThem ==
    /\ fn = "getConversation_map" /\ out # << >>
    /\ Absent(arg[1].handle_id)
    /\ out[1].sender = Label("Them")

---------------------------------------------------------------------------
(* Rows without an identifier                                              *)

\* The rowid column as the driver hands it over: a number, or null when
\* the store gives none (the rowid of a view, for one).
RowIdentifiers == {Num(7), Null}

\* Raw attachment rows (RawAttachmentRow).
RawAttachmentRows ==
    [rowid : RowIdentifiers,
     filename : {Null, Str(<<"f">>)},
     mime_type : {Null, Str(<<"m">>)},
     transfer_name : {Null, Str(<< >>), Str(<<"n">>)},
     total_bytes : {Null, Num(5)},
     is_sticker : {0, 1},
     is_audio_message : {0, 1}]

\* getAttachmentsForMessage: attachments.map((att) => ({...})).
getAttachmentsForMessage_map(att) ==
    [id |-> att.rowid,
     filename |-> OrElse(att.transfer_name, att.filename),
     mimeType |-> att.mime_type,
     filePath |-> att.filename,
     fileSize |-> att.total_bytes,
     isSticker |-> att.is_sticker = 1,
     isAudioMessage |-> att.is_audio_message = 1]

AttachmentMappers == {"getAttachmentsForMessage_map"}

\* The mapping callback of each repository function.
MapperOf(f, row) ==
    CASE f = "getRecentMessages_map" -> getRecentMessages_map(row)
      [] f = "getConversation_map" -> getConversation_map(row)
      [] f = "searchMessages_map" -> searchMessages_map(row)
      [] f = "getRecentAttachments_map" -> getRecentAttachments_map(row)
      [] f = "listChats_map" -> listChats_map(row)
      [] f = "findChatByContact_map" -> findChatByContact_map(row)
      [] f = "getAttachmentsForMessage_map" -> getAttachmentsForMessage_map(row)

\* What a mapping callback does with a row: the callbacks are object
\* literals with no throw statement, so the row's entity is returned.
MapOutcome(f, row) == [status |-> "returned", value |-> MapperOf(f, row)]

IdentifierInit ==
    /\ ServerInit
    /\ \E id \in RowIdentifiers :
          \/ /\ fn \in MessageMappers
             /\ arg \in {<<[r EXCEPT !.rowid = id]>> : r \in RawMessageRows}
          \/ /\ fn \in ChatMappers
             /\ arg \in {<<[r EXCEPT !.rowid = id]>> : r \in RawChatRows}
          \/ /\ fn \in AttachmentMappers
             /\ arg \in {<<r>> : r \in {a \in RawAttachmentRows : a.rowid = id}}
    /\ out = << >>

MapMessageRow ==
    /\ fn \in MessageMappers /\ out = << >>
    /\ out' = <<MapOutcome(fn, arg[1])>>
    /\ UNCHANGED <<serverVars, fn, arg>>

MapChatRow ==
    /\ fn \in ChatMappers /\ out = << >>
    /\ out' = <<MapOutcome(fn, arg[1])>>
    /\ UNCHANGED <<serverVars, fn, arg>>

MapAttachmentRow ==
    /\ fn \in AttachmentMappers /\ out = << >>
    /\ out' = <<MapOutcome(fn, arg[1])>>
    /\ UNCHANGED <<serverVars, fn, arg>>

IdentifierNext ==
    \/ MapMessageRow
    \/ MapChatRow
    \/ MapAttachmentRow

IdentifierSpec == IdentifierInit /\ [][IdentifierNext]_vars

(* C21: mapping a row fails if and only if the row's identifier (the       *)
(* message, chat or attachment row id) is absent, and no entity is ever    *)
(* returned with a missing identifier.                                     *)
C21_MappingFailsIffIdentifierAbsent ==
    out # << >> =>
        /\ (out[1].status = "raised") <=> (arg[1].rowid = Null)
        /\ out[1].status = "returned" => out[1].value.id # Null

(* C21, the half that holds: a row that carries its identifier is mapped   *)
(* to an entity with that identifier, whatever optional columns it lacks.  *)
C21_PresentIdentifierKept ==
    (out # << >> /\ arg[1].rowid # Null) =>
        /\ out[1].status = "returned"
        /\ out[1].value.id = arg[1].rowid

\* An entity was returned for a message row that has no identifier.
C21_EntityWithoutIdentifier ==
    /\ out # << >> /\ fn = "getRecentMessages_map"
    /\ arg[1].rowid = Null
    /\ out[1].status = "returned" /\ out[1].value.id = Null

---------------------------------------------------------------------------
(* What the caller of a failed request sees                                *)

\* The text of an error exactly as fs, better-sqlite3 or osascript raised it.
RawErrorTexts == {<<e>> : e \in Errors}

(* C22: every failure of a store-backed request carries a wrapped,         *)
(* human-actionable message; the error of the driver is never what the     *)
(* caller gets, also when the access check passed and the repository       *)
(* query raised after it.                                                  *)
C22_DriverErrorsWrapped ==
    (hpc = "done" /\ tool \in StoreTools /\ result.kind # "ok") =>
        result.text \notin RawErrorTexts

(* C22, the part that holds: a failure found by the access check reaches   *)
(* the caller as the not-found message or as the grant-access message,     *)
(* with the underlying error appended to it.                               *)
C22_CheckFailuresWrapped ==
    (hpc = "done" /\ tool \in StoreTools /\ dbCheck.done /\ ~dbCheck.accessible) =>
        /\ result.kind \in {"isError", "thrown"}
        /\ \/ result.text = NotFoundMessage
           \/ \E e \in Errors : result.text = GrantAccessMessage(e)
           \/ /\ tool = "check_database_access"
              /\ \E e \in Errors :
                    result.text \in {<<"Database access failed:">> \o NotFoundMessage,
                                     <<"Database access failed:">> \o GrantAccessMessage(e)}

\* The access check passed, the statement of get_recent_messages raised,
\* and the handler threw the driver's error as it was.
C22_RawDriverErrorThrown ==
    /\ hpc = "done" /\ tool = "get_recent_messages"
    /\ dbCheck.done /\ dbCheck.accessible
    /\ \E i \in DOMAIN trace : trace[i] = <<"statement", "getRecentMessages", "err_a">>
    /\ result = [kind |-> "thrown", text |-> <<"err_a">>]

---------------------------------------------------------------------------
(* getDatabaseStats                                                        *)

\* Rows the handle table may hold: Messages keeps one handle row for each
\* service an address was reached on, so two rows can carry the same id.
HandleRowPool ==
    {[rowid |-> 1, id |-> Str(E164Number), service |-> "iMessage"],
     [rowid |-> 2, id |-> Str(E164Number), service |-> "SMS"],
     [rowid |-> 3, id |-> Str(EmailAddress), service |-> "iMessage"]}

\* Stores as far as the statistics read them: the rows of the three tables.
StatsStores ==
    [message : SUBSET (1..MaxRows), chat : SUBSET (1..MaxRows), handle : SUBSET HandleRowPool]

\* SELECT (SELECT COUNT(*) FROM message) as total_messages,
\*        (SELECT COUNT(*) FROM chat) as total_chats,
\*        (SELECT COUNT(*) FROM handle) as total_contacts
getDatabaseStats_get(store) ==
    [total_messages |-> Cardinality(store.message),
     total_chats |-> Cardinality(store.chat),
     total_contacts |-> Cardinality(store.handle)]

\* return { totalMessages: stats.total_messages, ... }
getDatabaseStats_map(stats) ==
    [totalMessages |-> stats.total_messages,
     totalChats |-> stats.total_chats,
     totalContacts |-> stats.total_contacts]

StatsInit ==
    /\ ServerInit
    /\ fn = "getDatabaseStats"
    /\ arg \in {<<s>> : s \in StatsStores}
    /\ out = << >>

Call_getDatabaseStats ==
    /\ fn = "getDatabaseStats" /\ out = << >>
    /\ out' = <<getDatabaseStats_map(getDatabaseStats_get(arg[1]))>>
    /\ UNCHANGED <<serverVars, fn, arg>>

StatsNext == Call_getDatabaseStats

StatsSpec == StatsInit /\ [][StatsNext]_vars

(* C23: getDatabaseStats returns the number of message rows, the number of *)
(* chat rows and the number of distinct handle identifiers of the store:   *)
(* two handle rows with the same identifier count once.                    *)
C23_StatsCountDistinctHandles ==
    out # << >> =>
        /\ out[1].totalMessages = Cardinality(arg[1].message)
        /\ out[1].totalChats = Cardinality(arg[1].chat)
        /\ out[1].totalContacts = Cardinality({h.id : h \in arg[1].handle})

(* C23, as the statement computes it: the third number is the number of    *)
(* rows of the handle table.                                               *)
C23_StatsCountHandleRows ==
    out # << >> =>
        /\ out[1].totalMessages = Cardinality(arg[1].message)
        /\ out[1].totalChats = Cardinality(arg[1].chat)
        /\ out[1].totalContacts = Cardinality(arg[1].handle)

\* One address with an iMessage row and an SMS row was counted as two.
C23_SameIdentifierCountedTwice ==
    /\ out # << >>
    /\ arg[1].handle = {h \in HandleRowPool : h.id = Str(E164Number)}
    /\ out[1].totalContacts = 2

---------------------------------------------------------------------------
(* Requests without a required argument                                    *)

\* The request in flight lacks an argument its handler requires: contact,
\* query, recipient, message or chatIdentifier is absent or empty.
MissingRequired == RequiresParam(tool) /\ ~(args.recipient /\ args.message)

(* C24: a request without a hard-required argument raises at once: its     *)
(* handler goes from reading the arguments straight to the throw, with the *)
(* message of its tool; the access check has not run, no connection was    *)
(* opened, osascript was not called, no repository operation or send was   *)
(* started, and nothing follows the throw.                                 *)
C24_MissingParameterRaisesFirst ==
    MissingRequired =>
        /\ hpc \in {"validate", "done", "idle"}
        /\ trace = << >>
        /\ dbCheck = NoCheck
        /\ openConns = 0 /\ stack = << >>
        /\ ret = NoRet /\ sendRet = NoRet
        /\ hpc \in {"done", "idle"} =>
              result = [kind |-> "thrown", text |-> <<RequiredMessage(tool)>>]

\* get_conversation without a contact ended with "Contact is required".
C24_Witness ==
    /\ hpc = "done" /\ tool = "get_conversation" /\ ~args.recipient
    /\ result = [kind |-> "thrown", text |-> <<"Contact is required">>]
    /\ trace = << >>

\* send_message with a recipient and no message ended with its error and
\* no call of osascript.
C24_SendWithoutMessage ==
    /\ hpc = "done" /\ tool = "send_message" /\ args.recipient /\ ~args.message
    /\ result = [kind |-> "thrown", text |-> <<"Recipient and message are required">>]
    /\ trace = << >>

---------------------------------------------------------------------------
(* lib/utils.ts: escapeAppleScript                                         *)

Backslash == "\\"
DoubleQuote == "\""

\* Longest input of escapeAppleScript in the model.
MaxEscapeLen == 4

\* The characters of the inputs: the two that are escaped, a letter and a
\* line break.
EscapeAlphabet == {Backslash, DoubleQuote, "a", "\n"}

EscapeInputs == UNION {[1..k -> EscapeAlphabet] : k \in 0..MaxEscapeLen}

\* str.replace(/c/g, r): every occurrence of the character c becomes r.
RECURSIVE ReplaceAll(_, _, _)
ReplaceAll(str, c, r) ==
    IF str = << >> THEN << >>
    ELSE (IF Head(str) = c THEN r ELSE <<Head(str)>>) \o ReplaceAll(Tail(str), c, r)

\* As escapeAppleScript, with the two replacements in the other order.
escapeAppleScript_QuotesFirst(str) ==
    ReplaceAll(ReplaceAll(str, DoubleQuote, <<Backslash, DoubleQuote>>),
               Backslash, <<Backslash, Backslash>>)

\* str.replace(/\\/g, "\\\\").replace(/"/g, '\\"')
escapeAppleScript(str) ==
    ReplaceAll(ReplaceAll(str, Backslash, <<Backslash, Backslash>>),
               DoubleQuote, <<Backslash, DoubleQuote>>)

EscapeInit ==
    /\ ServerInit
    /\ fn = "escapeAppleScript"
    /\ arg \in {<<s>> : s \in EscapeInputs}
    /\ out = << >>

Apply_escapeAppleScript ==
    /\ fn = "escapeAppleScript" /\ out = << >>
    /\ out' = <<escapeAppleScript(arg[1])>>
    /\ UNCHANGED <<serverVars, fn, arg>>

EscapeNext == Apply_escapeAppleScript

EscapeSpec == EscapeInit /\ [][EscapeNext]_vars

\* The number of consecutive backslashes that end right before position i.
RECURSIVE BackslashesBefore(_, _)
BackslashesBefore(str, i) ==
    IF i > 1 /\ str[i - 1] = Backslash THEN 1 + BackslashesBefore(str, i - 1) ELSE 0

\* Reading an escaped text as AppleScript does inside a quoted literal: a
\* backslash takes the character after it literally.
RECURSIVE Unescape(_)
Unescape(str) ==
    IF str = << >> THEN << >>
    ELSE IF Head(str) = Backslash /\ Len(str) >= 2
         THEN <<str[2]>> \o Unescape(SubSeq(str, 3, Len(str)))
         ELSE <<Head(str)>> \o Unescape(Tail(str))

(* C25: escapeAppleScript doubles every backslash and then puts a          *)
(* backslash before every double quote: in its output every double quote   *)
(* follows an odd number of consecutive backslashes (so none of them ends   *)
(* the quoted literal), undoing the escaping gives the input back, the      *)
(* output is the input with each of the two characters preceded by one      *)
(* backslash, and an input without backslash and double quote is returned   *)
(* unchanged.                                                               *)
C25_EscapeAppleScript ==
    out # << >> =>
        LET str == arg[1]
            esc == out[1]
            special == {i \in DOMAIN str : str[i] \in {Backslash, DoubleQuote}}
        IN  /\ \A i \in DOMAIN esc :
                  esc[i] = DoubleQuote => BackslashesBefore(esc, i) % 2 = 1
            /\ BackslashesBefore(esc, Len(esc) + 1) % 2 = 0
            /\ Unescape(esc) = str
            /\ Len(esc) = Len(str) + Cardinality(special)
            /\ special = {} => esc = str

\* A backslash followed by a double quote became two backslashes, a
\* backslash and the double quote.
C25_Witness ==
    /\ out # << >>
    /\ arg[1] = <<"a", Backslash, DoubleQuote>>
    /\ out[1] = <<"a", Backslash, Backslash, Backslash, DoubleQuote>>

\* A text without the two characters came back as it was.
C25_PlainTextUnchanged ==
    /\ out # << >>
    /\ arg[1] = <<"a", "\n", "a">>
    /\ out[1] = arg[1]

---------------------------------------------------------------------------
(* The lookback window on stores with both units                           *)

\* Messages one hour, one day and 200 hours old, each written in
\* nanoseconds or in whole seconds.
EncodedKinds ==
    {k @@ [unit |-> u] : k \in {m \in MessageKinds : m.age \in {10, 240, 2000} /\ m.handle_id # Null},
                         u \in {"s", "ns"}}

EncodedTables == UNION {[1..n -> EncodedKinds] : n \in 0..MaxMessages}

LookbackOps == {"getRecentMessages", "getConversation", "searchMessages", "getRecentAttachments"}

LookbackInit ==
    /\ ServerInit
    /\ fn \in LookbackOps
    /\ arg \in EncodedTables \X Calls(fn)
    /\ out = << >>

LookbackNext ==
    \/ Call_getRecentMessages
    \/ Call_getConversation
    \/ Call_searchMessages
    \/ Call_getRecentAttachments

LookbackSpec == LookbackInit /\ [][LookbackNext]_vars

\* The start of the window of the call of the state, as a wall-clock time
\* in milliseconds: now minus the hours or days asked for.
WindowStart ==
    IF fn = "getRecentMessages"
    THEN BigSub(QueryNow, <<0, arg[2].hours * 360000>>)
    ELSE BigSub(QueryNow, <<(arg[2].days * 864) \div 100000,
                            ((arg[2].days * 864) % 100000) * 10000>>)

\* The joined rows that meet every condition of the call's statement but
\* the one on m.date.
BesidesDate ==
    LET store == Store(arg[1])
        from == CASE fn = "getConversation" -> FromMessageHandle(store)
                  [] fn = "getRecentAttachments" ->
                        {[r EXCEPT !.cmj = 0, !.maj = 0] :
                            r \in {q \in FromMessageHandleChatAttachment(store) :
                                      q.cache_has_attachments = 1}}
                  [] OTHER -> FromMessageHandleChat(store)
    IN  IF fn = "searchMessages"
        THEN {r \in from : Like(r.text, Percent(arg[2].query))}
        ELSE IF Truthy(arg[2].contact)
        THEN {r \in from : ThreePatternMatch(r.handle_id, arg[2].contact)}
        ELSE from

(* C26: the lookback filter of getRecentMessages, getConversation,          *)
(* searchMessages and getRecentAttachments selects by wall-clock time,      *)
(* whatever the unit of the stored date: of the rows that meet the other    *)
(* conditions, those whose converted date is later than now minus the       *)
(* window are the ones returned (as many as the limit allows), a            *)
(* seconds-encoded message inside the window included.                      *)
C26_WindowByWallClock ==
    (fn \in LookbackOps /\ out # << >>) =>
        LET inside == {r \in BesidesDate : BigLess(WindowStart, cocoaTimestampToDate(r.date.v))}
        IN  /\ Range(out[1].rows) \subseteq inside
            /\ Len(out[1].rows) = AtMost(arg[2].limit, Cardinality(inside))

(* C26, as the statements compute it: the rows returned are those whose     *)
(* stored number is greater than the cutoff, a number of nanoseconds.       *)
C26_WindowByStoredNumber ==
    (fn \in LookbackOps /\ out # << >>) =>
        LET inside == {r \in BesidesDate : BigLess(Cutoff, r.date.v)}
        IN  /\ Range(out[1].rows) \subseteq inside
            /\ Len(out[1].rows) = AtMost(arg[2].limit, Cardinality(inside))
            /\ \A r \in inside : BigLess(NanosecondThreshold, r.date.v)

\* The only message of the store is one hour old and seconds-encoded; a
\* window of 24 hours without contact and with room for it returned nothing.
C26_SecondsEncodedLeftOut ==
    /\ fn = "getRecentMessages" /\ out # << >>
    /\ Len(arg[1]) = 1 /\ arg[1][1].unit = "s" /\ arg[1][1].age = 10
    /\ arg[2].hours = 240 /\ ~Truthy(arg[2].contact) /\ arg[2].limit >= 1
    /\ out[1].rows = << >>

---------------------------------------------------------------------------
(* The range of normalizeLimit                                             *)

\* normalizeLimit was applied to a number, with policy values that are
\* whole numbers and 1 <= default <= max.
LimitOfNumberDone ==
    /\ fn = "normalizeLimit" /\ out # << >>
    /\ arg[1].t = "num"
    /\ arg[2].v % Unit = 0 /\ arg[3].v % Unit = 0
    /\ Unit <= arg[2].v /\ arg[2].v <= arg[3].v

(* C27 as stated: for every number given as limit, fractions included, and  *)
(* whole policy values 1 <= default <= max, normalizeLimit returns a whole  *)
(* number in [1, max]: the LIMIT it yields is never 0 and never fractional. *)
C27_LimitInOneToMax ==
    LimitOfNumberDone =>
        /\ out[1].t = "num"
        /\ out[1].v % Unit = 0
        /\ Unit <= out[1].v /\ out[1].v <= arg[3].v

(* C27 amended: under the same conditions normalizeLimit returns a whole    *)
(* number in [0, max], never a fraction and never a negative number; it is  *)
(* 0 exactly when the limit lies strictly between 0 and 1 (floored to 0),   *)
(* and otherwise in [1, max].                                               *)
C27_LimitWholeUpToMax ==
    LimitOfNumberDone =>
        /\ out[1].t = "num"
        /\ out[1].v % Unit = 0
        /\ 0 <= out[1].v /\ out[1].v <= arg[3].v
        /\ (out[1].v = 0) <=> (0 < arg[1].v /\ arg[1].v < Unit)

\* A limit of one half, with default 1 and max 2, became 0.
C27_Witness ==
    /\ LimitOfNumberDone
    /\ arg = <<Num(1), Num(Unit), Num(2 * Unit)>>
    /\ out[1] = Num(0)

\* A limit above max became max, a whole number of at least 1.
C27_ClampedToMax ==
    /\ LimitOfNumberDone
    /\ arg[1].v > arg[3].v
    /\ out[1] = arg[3]

---------------------------------------------------------------------------
(* getConversation with more messages than the limit                       *)

(* C28: when more than limit messages of the contact lie inside the        *)
(* lookback window, getConversation returns exactly limit of them, the     *)
(* oldest ones in ascending order of date: the order is applied before the *)
(* limit, so every message left out is at least as recent as every message *)
(* returned, and the most recent message of the window is left out.        *)
C28_ConversationKeepsOldest ==
    (fn = "getConversation" /\ out # << >> /\ Cardinality(Qualifying) > arg[2].limit) =>
        LET rows == out[1].rows
            dropped == Qualifying \ Range(rows)
        IN  /\ IsDateCut(rows, Qualifying, arg[2].limit, TRUE)
            /\ Len(out[1].result) = arg[2].limit
            /\ dropped # {}
            /\ \E d \in dropped : \A q \in Qualifying : ~BigLess(d.date.v, q.date.v)

\* Two messages of the contact inside the window, the newer one stored
\* first; the limit of 1 kept the older one and dropped the newer.
C28_Witness ==
    /\ fn = "getConversation" /\ out # << >>
    /\ arg[2].limit = 1
    /\ Len(arg[1]) = 2 /\ arg[1][1].age < arg[1][2].age
    /\ Cardinality(Qualifying) = 2
    /\ Len(out[1].result) = 1 /\ out[1].result[1].id = 2
    /\ \E d \in Qualifying : d.rowid = 1 /\ BigLess(out[1].rows[1].date.v, d.date.v)

---------------------------------------------------------------------------
(* Message identifiers in a result                                         *)

JoinedOps == {"getRecentMessages", "searchMessages", "getRecentAttachments"}

\* The identifier of the i-th entity of the result of the call.
EntityId(i) ==
    IF fn = "getRecentAttachments" THEN out[1].result[i].message.id ELSE out[1].result[i].id

(* C29 as stated: in the result of getRecentMessages, searchMessages and    *)
(* getRecentAttachments every message identifier appears at most once,      *)
(* whatever the store holds, a message joined to several chats included.    *)
C29_IdentifierAtMostOnce ==
    (fn \in JoinedOps /\ out # << >>) =>
        \A i, j \in DOMAIN out[1].result : i # j => EntityId(i) # EntityId(j)

(* C29 amended: in these results a message appears at most once for every  *)
(* chat it is joined to (at most once if it is in no chat or in one): the   *)
(* join with the chats multiplies its row, the DISTINCT of                  *)
(* getRecentAttachments only merges the rows its attachments multiply.      *)
(* The limit bounds the number of entities, not of distinct messages.       *)
C29_IdentifierOncePerChat ==
    (fn \in JoinedOps /\ out # << >>) =>
        LET store == Store(arg[1]) IN
        /\ Len(out[1].result) <= arg[2].limit
        /\ \A m \in Messages(store) :
              Cardinality({i \in DOMAIN out[1].result : EntityId(i) = m.rowid})
                  <= Cardinality(ChatsOf(store, m))

\* A message with two attachments, joined to two chats, came back from
\* getRecentAttachments twice: once for each chat, not once for each
\* attachment of each chat.
C29_Witness ==
    /\ fn = "getRecentAttachments" /\ out # << >>
    /\ Len(arg[1]) = 1 /\ arg[1][1].chats = {2, 3} /\ arg[1][1].attachments = {1, 2}
    /\ arg[2].limit = 3
    /\ Len(out[1].result) = 2
    /\ EntityId(1) = 1 /\ EntityId(2) = 1

\* searchMessages returned one message twice.
C29_SearchSameMessageTwice ==
    /\ fn = "searchMessages" /\ out # << >>
    /\ Len(arg[1]) = 1
    /\ Len(out[1].result) = 2
    /\ EntityId(1) = EntityId(2)

---------------------------------------------------------------------------
(* What sendMessage reports                                                *)

\* The outcomes of the osascript calls of the request, by script.
ScriptOutcomes(script) ==
    {trace[i][3] : i \in {k \in DOMAIN trace : IsOsascript(trace[k]) /\ trace[k][2] = script}}

(* C30: when the iMessage script and the SMS script both fail, sendMessage  *)
(* raises "Failed to send message: " followed by the message of the         *)
(* iMessage failure; the SMS failure is dropped and reaches neither the     *)
(* error nor the handler's answer.  A success string mentions SMS exactly   *)
(* when the SMS script delivered the message.                               *)
C30_PrimaryFailureReported ==
    (tool = "send_message" /\ hpc \in {"sent", "done"} /\ sendRet # NoRet) =>
        /\ \A e1, e2 \in Errors :
              (e1 \in ScriptOutcomes("iMessage") /\ e2 \in ScriptOutcomes("SMS")) =>
                  /\ sendRet = [status |-> "raised",
                                err |-> <<"Failed to send message: ", "AppleScript error: ", e1>>]
                  /\ hpc = "done" => result = [kind |-> "isError", text |-> sendRet.err]
                  /\ e2 # e1 => \A i \in DOMAIN sendRet.err : sendRet.err[i] # e2
        /\ sendRet.status = "returned" =>
              /\ sendRet.text \in {SentText, SentViaSmsText}
              /\ (sendRet.text = SentViaSmsText) <=> ("ok" \in ScriptOutcomes("SMS"))
              /\ (sendRet.text = SentText) <=>
                    ("ok" \in ScriptOutcomes("iMessage") \cup ScriptOutcomes("chat"))
              /\ hpc = "done" => result = [kind |-> "ok", text |-> sendRet.text]

\* The iMessage script failed with one error and the SMS script with
\* another; the answer carries the first.
C30_Witness ==
    /\ tool = "send_message" /\ hpc = "done"
    /\ trace = << <<"osascript", "iMessage", "err_a">>, <<"osascript", "SMS", "err_b">> >>
    /\ result = [kind |-> "isError",
                 text |-> <<"Failed to send message: ", "AppleScript error: ", "err_a">>]

\* The SMS script delivered the message after the iMessage script failed.
C30_SentBySms ==
    /\ tool = "send_message" /\ hpc = "done"
    /\ "ok" \in ScriptOutcomes("SMS")
    /\ result = [kind |-> "ok", text |-> SentViaSmsText]

====
